---------------------------- MODULE Spec2Model ----------------------------
(***************************************************************************)
(* A model of the recommendation core of the ai-recommendation-engine      *)
(* service (src/ai-recommendation-engine/recommendation_logic.py): the     *)
(* rule-based program classifier, the TF-IDF content-based recommender,    *)
(* the pure-Python k-means clusterer and the orchestrator composing them.  *)
(*                                                                         *)
(* Numbers.  Python floats are modelled by exact rationals <<n, d>> in     *)
(* lowest terms with d > 0; IEEE-754 rounding is not modelled.  Natural    *)
(* logarithms are a fixed-point table (tenths), square roots are avoided   *)
(* by comparing squares.  Texts are sequences of words (maximal            *)
(* alphanumeric runs); tokenize lower-cases each word.                     *)
(***************************************************************************)
EXTENDS Integers, Sequences, FiniteSets, TLC

VARIABLES
    clsIn,      \* arguments of the recommend_program_from_signals call
    clsOut,     \* <<its return value>>, or <<>> before the call returns
    cbf,        \* the CBFRecommender object: _idf, _course_vecs, _fitted
    cbfIn,      \* arguments of the CBFRecommender.recommend call
    cbfOut,     \* <<its return value>>, or <<>> before the call returns
    rng,        \* the state of the process-wide generator of module random
    clusterer,  \* <<the KMeansClusterer object constructed last>>, or <<>>
    orchIn,     \* arguments of the recommend_with_kmeans_and_cbf calls
    orchOut,    \* the outcomes of the calls made so far, in order
    kmLast,     \* the last fit or predict call made on the clusterer, or <<>>
    fits,       \* the fit calls in progress, one per thread: position and locals
    others,     \* what code other than fit did to the generator: the state it
                \* would be in had no fit run, and the number of such operations
    glueIn,     \* arguments of the build_student_* calls
    glueOut,    \* their return values: <<v>> each, or <<>> before the call
    cosIn,      \* the two sparse vectors given to cosine_sim_sparse
    cosOut,     \* its results, or <<>> before the calls
    store,      \* the tables of the recommendation service's database
    handler,    \* the /recommend requests: each one's position and locals
    gw          \* the gateway: the request in hand and what was sent on

clsVars == <<clsIn, clsOut>>

cbfVars == <<cbf, cbfIn, cbfOut>>

orchVars == <<rng, clusterer, orchIn, orchOut>>

kmVars == <<kmLast, fits, others>>

glueVars == <<glueIn, glueOut>>

cosVars == <<cosIn, cosOut>>

recVars == <<store, handler>>

gwVars == <<gw>>

vars == <<clsIn, clsOut, cbf, cbfIn, cbfOut, rng, clusterer, orchIn, orchOut, kmLast, fits, others, glueIn, glueOut, cosIn, cosOut, store, handler, gw>>

\* A call that has not returned yet has the result <<>>; a returned value v is <<v>>
NotCalled == <<>>

Returned(v) == <<v>>

(***************************************************************************)
(* Bounds of the model.                                                    *)
(***************************************************************************)
MaxStrength == 1      \* category strengths range over -1 .. MaxStrength
MaxTotal    == 4      \* total ranges over -1 .. MaxTotal, score over -1 .. MaxTotal + 1
MaxClusterId == 5     \* cluster_id ranges over -2 .. MaxClusterId
MaxCourses  == 3      \* a corpus holds at most MaxCourses courses
MaxTopN     == 2      \* top_n ranges over 0 .. MaxTopN
FloatBits == 4        \* a float of the model has FloatBits significant bits
MaxExp == 12          \* float exponents range over -MaxExp .. MaxExp

(***************************************************************************)
(* Rational arithmetic (the model of float).                               *)
(***************************************************************************)
Abs(x) == IF x < 0 THEN -x ELSE x

Max(a, b) == IF a >= b THEN a ELSE b

Min(a, b) == IF a <= b THEN a ELSE b

RECURSIVE GCD(_, _)
GCD(a, b) == IF b = 0 THEN a ELSE GCD(b, a % b)

\* n / d in lowest terms, d # 0
Rat(n, d) ==
    IF d = 1 THEN <<n, 1>>
    ELSE LET s == IF d < 0 THEN -1 ELSE 1
             g == GCD(Abs(n), Abs(d))
         IN  <<(s * n) \div g, (s * d) \div g>>

RInt(i) == <<i, 1>>

RAdd(a, b) == Rat(a[1] * b[2] + b[1] * a[2], a[2] * b[2])

RSub(a, b) == Rat(a[1] * b[2] - b[1] * a[2], a[2] * b[2])

RMul(a, b) == Rat(a[1] * b[1], a[2] * b[2])

\* The sign of a/b - c/d (b, d > 0), by comparing integer parts and then the
\* reciprocals of the fractional parts: no product is formed, so the
\* comparison stays within the integers TLC can hold
RECURSIVE RCmp(_, _, _, _)
RCmp(a, b, c, d) ==
    LET qa == a \div b
        qc == c \div d
        ra == a % b
        rc == c % d
    IN  IF qa < qc THEN -1
        ELSE IF qa > qc THEN 1
        ELSE IF ra = 0 /\ rc = 0 THEN 0
        ELSE IF ra = 0 THEN -1
        ELSE IF rc = 0 THEN 1
        ELSE RCmp(d, rc, b, ra)

RLt(a, b) == RCmp(a[1], a[2], b[1], b[2]) < 0

RLe(a, b) == RCmp(a[1], a[2], b[1], b[2]) <= 0

\* int(x): truncation towards zero
PyInt(r) == IF r[1] >= 0 THEN r[1] \div r[2] ELSE -((-r[1]) \div r[2])

\* max(55, pct) and min(95, x) of an int and a float: Python returns the first
\* argument unless the other is strictly greater (max) / strictly smaller (min)
PyMax(a, b) == IF RLt(a, b) THEN b ELSE a

PyMin(a, b) == IF RLt(b, a) THEN b ELSE a

\* f"{x:.1f}": x rounded to one decimal, ties to even; the value in tenths
FormatF1(r) ==
    LET n10 == r[1] * 10
        q   == n10 \div r[2]
        rem == n10 - q * r[2]
    IN  IF 2 * rem > r[2] THEN q + 1
        ELSE IF 2 * rem < r[2] THEN q
        ELSE IF q % 2 = 0 THEN q ELSE q + 1

(***************************************************************************)
(* Program classifier: recommend_program_from_signals.                     *)
(***************************************************************************)
\* buckets = {"IS": logic, "CS": programming, "IT": networking,
\*            "BTVTED (ICT)": design}, a dict in insertion order
Buckets(logic, programming, networking, design) ==
    << <<"IS", logic>>, <<"CS", programming>>, <<"IT", networking>>,
       <<"BTVTED (ICT)", design>> >>

\* (mutant) the last item whose key is maximal
RECURSIVE PyMaxByValueLast(_, _, _)
PyMaxByValueLast(items, i, best) ==
    IF i > Len(items) THEN best
    ELSE PyMaxByValueLast(items, i + 1,
                          IF items[i][2] >= best[2] THEN items[i] ELSE best)

\* max(items, key=lambda kv: kv[1]): the first item whose key is maximal
RECURSIVE PyMaxByValue(_, _, _)
PyMaxByValue(items, i, best) ==
    IF i > Len(items) THEN best
    ELSE PyMaxByValue(items, i + 1,
                      IF items[i][2] > best[2] THEN items[i] ELSE best)

StrongestArea(buckets) == PyMaxByValue(buckets, 2, buckets[1])[1]

\* (mutant) the cluster also decides when the largest value is shared by
\* two or more buckets
AllBucketsEqualOrTiedMax(buckets) ==
    LET top == PyMaxByValue(buckets, 2, buckets[1])[2]
    IN  Cardinality({i \in 1..Len(buckets) : buckets[i][2] = top}) > 1

\* len(set(buckets.values())) == 1
AllBucketsEqual(buckets) ==
    Cardinality({buckets[i][2] : i \in 1..Len(buckets)}) = 1

\* (mutant) the table looked up with cluster_id itself: cluster_bias.get(cluster_id, "IS")
ClusterBiasNoMod(cluster_id) ==
    CASE cluster_id = 0 -> "IS"
      [] cluster_id = 1 -> "CS"
      [] cluster_id = 2 -> "IT"
      [] cluster_id = 3 -> "BTVTED (ICT)"
      [] OTHER -> "IS"

\* cluster_bias.get(cluster_id % 4, "IS")
ClusterBias(cluster_id) ==
    LET m == cluster_id % 4
    IN  CASE m = 0 -> "IS"
          [] m = 1 -> "CS"
          [] m = 2 -> "IT"
          [] m = 3 -> "BTVTED (ICT)"
          [] OTHER -> "IS"

\* explanations.get(program): the fixed explanatory text of a program (None
\* for a label that is no key of the table)
Explanation(program) ==
    CASE program = "IS" -> "strong logical thinking and analytical skills"
      [] program = "CS" -> "performed best in programming-related questions"
      [] program = "IT" -> "strength lies in networking and technical infrastructure"
      [] program = "BTVTED (ICT)" -> "excelled in design and creative tasks"
      [] OTHER -> "None"

\* pct = (score / max(1, total)) * 100.0
Pct(score, total) == Rat(score * 100, Max(1, total))

\* (mutant) rounding to the nearest integer instead of truncating
ConfidenceRounded(pct) ==
    LET c == PyMin(RInt(95), PyMax(RInt(55), pct))
    IN  (2 * c[1] + c[2]) \div (2 * c[2])

\* confidence = int(min(95, max(55, pct)))
Confidence(pct) == PyInt(PyMin(RInt(95), PyMax(RInt(55), pct)))

RationaleText(program, score, total, logic, programming, networking, design, pct) ==
    [ explanation |-> Explanation(program),
      logic |-> logic, programming |-> programming,
      networking |-> networking, design |-> design,
      score |-> score, total |-> total,
      pct1 |-> FormatF1(pct) ]

recommend_program_from_signals(score, total, logic, programming, networking, design, cluster_id) ==
    LET pct     == Pct(score, total)
        buckets == Buckets(logic, programming, networking, design)
        program == IF AllBucketsEqual(buckets)
                   THEN ClusterBias(cluster_id)
                   ELSE StrongestArea(buckets)
    IN  [ program    |-> program,
          confidence |-> Confidence(pct),
          rationale  |-> RationaleText(program, score, total, logic,
                                       programming, networking, design, pct) ]

(***************************************************************************)
(* Utilities: text and similarity.                                         *)
(***************************************************************************)
\* str.lower() of a word
Lower(w) ==
    CASE w = "CS" -> "cs"
      [] w = "IT" -> "it"
      [] w = "IS" -> "is"
      [] w = "BTVTED" -> "btvted"
      [] w = "ICT" -> "ict"
      [] w = "CS101" -> "cs101"
      [] w = "IT201" -> "it201"
      [] w = "IS301" -> "is301"
      [] w = "ED401" -> "ed401"
      [] w = "Programming" -> "programming"
      [] w = "Networking" -> "networking"
      [] w = "Database" -> "database"
      [] w = "Design" -> "design"
      [] OTHER -> w

\* tokenize(text): the lower-cased alphanumeric runs of the text, in order
tokenize(text) == [i \in 1..Len(text) |-> Lower(text[i])]

\* set(toks)
TokenSet(toks) == {toks[i] : i \in 1..Len(toks)}

\* round(10 * ln(n)) for the small positive integers the model meets
LnDeci(n) == <<0, 7, 11, 14, 16, 18, 19, 21, 22, 23, 24, 25>>[n]

RECURSIVE SumOver(_, _)
SumOver(S, f) ==
    IF S = {} THEN 0
    ELSE LET x == CHOOSE y \in S : TRUE
         IN  f[x] + SumOver(S \ {x}, f)

\* dot += v * b.get(k, 0.0) for k, v in a.items()
Dot(a, b) ==
    SumOver(DOMAIN a,
            [k \in DOMAIN a |-> a[k] * (IF k \in DOMAIN b THEN b[k] ELSE 0)])

\* sum(v * v for v in a.values())
NormSq(a) == SumOver(DOMAIN a, [k \in DOMAIN a |-> a[k] * a[k]])

\* cosine_sim_sparse(a, b).  The value kept is the square of the cosine,
\* dot^2 / (na^2 * nb^2), an exact rational: no weight is negative, so the
\* square orders and ties candidates exactly as the cosine does, it is 0
\* exactly when the cosine is and 1 exactly when the cosine is.
cosine_sim_sparse(a, b) ==
    IF DOMAIN a = {} \/ DOMAIN b = {} THEN RInt(0)
    ELSE LET dot == Dot(a, b)
             na2 == NormSq(a)
             nb2 == NormSq(b)
         IN  IF na2 = 0 \/ nb2 = 0 THEN RInt(0)
             ELSE Rat(dot * dot, na2 * nb2)

\* the first digits decimal digits of the fraction r / q (0 <= r < q), by long
\* division: <<value of the digits, remainder>>
RECURSIVE LongDiv(_, _, _, _)
LongDiv(r, q, digits, acc) ==
    IF digits = 0 THEN <<acc, r>>
    ELSE LongDiv((r * 10) % q, q, digits - 1, acc * 10 + (r * 10) \div q)

\* round(x, 6) of 0 <= x <= 1, in millionths (ties to even)
Round6(x) ==
    LET whole == x[1] \div x[2]
        ld    == LongDiv(x[1] % x[2], x[2], 6, whole)
        m     == ld[1]
        rem   == ld[2]
    IN  IF 2 * rem > x[2] THEN m + 1
        ELSE IF 2 * rem < x[2] THEN m
        ELSE IF m % 2 = 0 THEN m ELSE m + 1

(***************************************************************************)
(* Floating-point arithmetic.  A float is kept as the exact rational it    *)
(* stands for; every operation rounds its exact result to FloatBits        *)
(* significant bits, to nearest, ties to even, as IEEE 754 does with the   *)
(* 53 bits of a Python float.  Overflow and underflow are not modelled.    *)
(***************************************************************************)
RDiv(a, b) == Rat(a[1] * b[2], a[2] * b[1])

RECURSIVE IntPow2(_)
IntPow2(n) == IF n = 0 THEN 1 ELSE 2 * IntPow2(n - 1)

\* 2^e as a rational
Pow2(e) == IF e >= 0 THEN <<IntPow2(e), 1>> ELSE <<1, IntPow2(-e)>>

\* the exponent e of a positive r: 2^e <= r < 2^(e+1)
FloatExponent(r) == CHOOSE e \in -MaxExp .. MaxExp : RLe(Pow2(e), r) /\ RLt(r, Pow2(e + 1))

\* the integer nearest to m >= 0, ties to even
RoundHalfEven(m) ==
    LET q == m[1] \div m[2]
        rem == m[1] % m[2]
    IN  IF 2 * rem > m[2] THEN q + 1
        ELSE IF 2 * rem < m[2] THEN q
        ELSE IF q % 2 = 0 THEN q ELSE q + 1

\* r >= 0 rounded to a multiple of ulp
RoundToUlp(r, ulp) == RMul(RInt(RoundHalfEven(RDiv(r, ulp))), ulp)

\* the float nearest to the rational r >= 0
RoundToFloat(r) == IF r[1] = 0 THEN RInt(0) ELSE RoundToUlp(r, Pow2(FloatExponent(r) - FloatBits + 1))

\* x * y
FloatMul(x, y) == RoundToFloat(RMul(x, y))

\* x + y
FloatAdd(x, y) == RoundToFloat(RAdd(x, y))

\* x / y
FloatDiv(x, y) == RoundToFloat(RDiv(x, y))

\* the e of a positive r with 4^e <= r < 4^(e+1): the exponent of its root
SqrtExponent(r) == CHOOSE e \in -MaxExp .. MaxExp : RLe(Pow2(2 * e), r) /\ RLt(r, Pow2(2 * e + 2))

\* the significand k, FloatBits wide, of the largest multiple of ulp whose
\* square is at most r
SqrtFloor(r, ulp) ==
    CHOOSE k \in IntPow2(FloatBits - 1) .. (IntPow2(FloatBits) - 1) :
        /\ RLe(RMul(RMul(RInt(k), ulp), RMul(RInt(k), ulp)), r)
        /\ RLt(r, RMul(RMul(RInt(k + 1), ulp), RMul(RInt(k + 1), ulp)))

\* k * ulp or (k + 1) * ulp, whichever is nearer to the root of r: r is
\* compared with the square of the midpoint
SqrtNearest(r, ulp, k, mid) ==
    IF RLt(RMul(mid, mid), r) THEN RMul(RInt(k + 1), ulp)
    ELSE IF RLt(r, RMul(mid, mid)) THEN RMul(RInt(k), ulp)
    ELSE RMul(RInt(IF k % 2 = 0 THEN k ELSE k + 1), ulp)

SqrtRounded(r, ulp, k) == SqrtNearest(r, ulp, k, RMul(Rat(2 * k + 1, 2), ulp))

SqrtWithUlp(r, ulp) == SqrtRounded(r, ulp, SqrtFloor(r, ulp))

\* math.sqrt(r): the float nearest to the root of r >= 0
math_sqrt(r) == IF r[1] = 0 THEN RInt(0) ELSE SqrtWithUlp(r, Pow2(SqrtExponent(r) - FloatBits + 1))

\* b.get(k, 0.0) of a dict kept as the sequence of its <<key, value>> items
\* in insertion order
DictGet(b, k) ==
    IF \E i \in 1 .. Len(b) : b[i][1] = k
    THEN b[CHOOSE i \in 1 .. Len(b) : b[i][1] = k][2]
    ELSE RInt(0)

\* dot = 0.0; for k, v in a.items(): dot += v * b.get(k, 0.0)
RECURSIVE FloatDot(_, _, _, _)
FloatDot(a, b, i, dot) ==
    IF i > Len(a) THEN dot
    ELSE FloatDot(a, b, i + 1, FloatAdd(dot, FloatMul(a[i][2], DictGet(b, a[i][1]))))

\* sum(v * v for v in a.values())
RECURSIVE FloatSumSq(_, _, _)
FloatSumSq(a, i, acc) ==
    IF i > Len(a) THEN acc
    ELSE FloatSumSq(a, i + 1, FloatAdd(acc, FloatMul(a[i][2], a[i][2])))

\* the last lines of cosine_sim_sparse
CosineOfParts(dot, na, nb) ==
    IF na = RInt(0) \/ nb = RInt(0) THEN RInt(0)
    ELSE FloatDiv(dot, FloatMul(na, nb))

\* cosine_sim_sparse(a, b) as the floats compute it, of two dicts kept as
\* item sequences
cosine_sim_sparse_float(a, b) ==
    IF a = <<>> \/ b = <<>> THEN RInt(0)
    ELSE CosineOfParts(FloatDot(a, b, 1, RInt(0)),
                       math_sqrt(FloatSumSq(a, 1, RInt(0))),
                       math_sqrt(FloatSumSq(b, 1, RInt(0))))

(***************************************************************************)
(* Content-based filtering: CourseItem and CBFRecommender.                 *)
(***************************************************************************)
\* f"{code} {title} {description} {program} {level} {tags}"
as_text(c) ==
    c.code \o c.title \o c.description
        \o (IF c.program = "" THEN <<>> ELSE <<c.program>>)
        \o c.level \o c.tags

\* CBFRecommender.__init__
NewCBF == [idf |-> <<>>, course_vecs |-> <<>>, fitted |-> FALSE]

\* docs_tokens[c.id] = toks, for c in courses: a later course of the same id
\* replaces the earlier one's tokens
RECURSIVE DocsTokens(_, _, _)
DocsTokens(courses, i, acc) ==
    IF i > Len(courses) THEN acc
    ELSE LET c == courses[i]
             toks == tokenize(as_text(c))
         IN  DocsTokens(courses, i + 1,
                 [id \in (DOMAIN acc) \cup {c.id} |->
                     IF id = c.id THEN toks ELSE acc[id]])

\* (mutant) df[t] counts the occurrences of t, not the courses holding it
DocFreqOfOccurrences(courses) ==
    LET toksOf(i) == tokenize(as_text(courses[i]))
        vocab == UNION {TokenSet(toksOf(i)) : i \in 1..Len(courses)}
    IN  [t \in vocab |-> Cardinality({q \in (1..Len(courses)) \X (1..8) :
                                         q[2] <= Len(toksOf(q[1])) /\ toksOf(q[1])[q[2]] = t})]

\* df[t]: the number of courses of the list whose text holds t
DocFreq(courses) ==
    LET toksOf(i) == TokenSet(tokenize(as_text(courses[i])))
        vocab == UNION {toksOf(i) : i \in 1..Len(courses)}
    IN  [t \in vocab |-> Cardinality({i \in 1..Len(courses) : t \in toksOf(i)})]

\* (mutant) the table also holds a weight for tokens no course has
IdfWithUnknown(courses) ==
    LET df == DocFreq(courses)
        n_docs == Max(1, Len(courses))
    IN  [t \in (DOMAIN df) \cup {"unknown"} |->
            IF t \in DOMAIN df THEN LnDeci(n_docs + 1) - LnDeci(df[t] + 1) + 10
            ELSE LnDeci(n_docs + 1) + 10]

\* idf[t] = log((n_docs + 1) / (df_t + 1)) + 1.0, in tenths
Idf(courses) ==
    LET df == DocFreq(courses)
        n_docs == Max(1, Len(courses))
    IN  [t \in DOMAIN df |-> LnDeci(n_docs + 1) - LnDeci(df[t] + 1) + 10]

\* tf[t]: the number of occurrences of t in toks
TermFreq(toks) ==
    [t \in TokenSet(toks) |-> Cardinality({i \in 1..Len(toks) : toks[i] = t})]

\* vec[t] = (1.0 + log(cnt)) * idf.get(t, 0.0), in tenths
TfIdfVector(toks, idf) ==
    LET tf == TermFreq(toks)
    IN  [t \in DOMAIN tf |->
            ((10 + LnDeci(tf[t])) * (IF t \in DOMAIN idf THEN idf[t] ELSE 0)) \div 10]

\* CBFRecommender.fit
CBFFitted(courses) ==
    LET idf == Idf(courses)
        docs_tokens == DocsTokens(courses, 1, <<>>)
    IN  [ idf |-> idf,
          course_vecs |-> [id \in DOMAIN docs_tokens |->
                              TfIdfVector(docs_tokens[id], idf)],
          fitted |-> TRUE ]

\* CBFRecommender._vectorize_query
VectorizeQuery(model, text) == TfIdfVector(tokenize(text), model.idf)

\* the loop over the courses: the (index, c.id, s) of every course that passes
\* the program filter and has a non-empty fitted vector, in corpus order
RECURSIVE Scored(_, _, _, _, _)
Scored(model, qv, courses, program_filter, i) ==
    IF i > Len(courses) THEN <<>>
    ELSE LET c == courses[i]
             rest == Scored(model, qv, courses, program_filter, i + 1)
         IN  IF program_filter # "" /\ c.program # program_filter THEN rest
             ELSE IF c.id \notin DOMAIN model.course_vecs THEN rest
             ELSE IF DOMAIN model.course_vecs[c.id] = {} THEN rest
             ELSE << [pos |-> i, id |-> c.id,
                      s |-> cosine_sim_sparse(qv, model.course_vecs[c.id])] >>
                  \o rest

\* (mutant) a sort that puts an element before its equals: not stable
RECURSIVE SortByScoreDescUnstable(_)
SortByScoreDescUnstable(scored) ==
    IF Len(scored) <= 1 THEN scored
    ELSE LET x == scored[Len(scored)]
             sorted == SortByScoreDescUnstable(SubSeq(scored, 1, Len(scored) - 1))
             keep == {j \in 1..Len(sorted) : RLt(x.s, sorted[j].s)}
             n == Cardinality(keep)
         IN  SubSeq(sorted, 1, n) \o <<x>> \o SubSeq(sorted, n + 1, Len(sorted))

\* scored.sort(key=lambda x: x[1], reverse=True): a stable sort, so equal
\* scores keep the order of the list
RECURSIVE SortByScoreDesc(_)
SortByScoreDesc(scored) ==
    IF Len(scored) <= 1 THEN scored
    ELSE LET x == scored[Len(scored)]
             sorted == SortByScoreDesc(SubSeq(scored, 1, Len(scored) - 1))
             keep == {j \in 1..Len(sorted) : RLe(x.s, sorted[j].s)}
             n == Cardinality(keep)
         IN  SubSeq(sorted, 1, n) \o <<x>> \o SubSeq(sorted, n + 1, Len(sorted))

\* seq[:n]
PyPrefix(seq, n) ==
    IF n >= 0 THEN SubSeq(seq, 1, Min(n, Len(seq)))
    ELSE SubSeq(seq, 1, Max(0, Len(seq) + n))

\* by_id = {c.id: c for c in courses}: the last course of each id
ById(courses, cid) ==
    courses[CHOOSE i \in 1..Len(courses) :
                /\ courses[i].id = cid
                /\ \A j \in (i + 1)..Len(courses) : courses[j].id # cid]

\* CBFRecommender.recommend on a fitted model.  Besides the five reported
\* fields each entry keeps, for the claims only, the position in the corpus
\* of the course that was scored (pos) and its unrounded score (raw).
RankedRecommendations(model, student_text, courses, top_n, program_filter) ==
    LET qv == VectorizeQuery(model, student_text)
        top == PyPrefix(SortByScoreDesc(
                   Scored(model, qv, courses, program_filter, 1)), top_n)
    IN  [k \in 1..Len(top) |->
            [ course_id |-> top[k].id, code |-> ById(courses, top[k].id).code,
              title |-> ById(courses, top[k].id).title,
              program |-> ById(courses, top[k].id).program,
              score |-> Round6(top[k].s), pos |-> top[k].pos, raw |-> top[k].s ]]

\* (mutant) recommend fits on every call
LazyFitAlways(model, courses) == CBFFitted(courses)

\* if not self._fitted: self.fit(courses)
LazyFit(model, courses) == IF model.fitted THEN model ELSE CBFFitted(courses)

(***************************************************************************)
(* The process-wide generator of module random.  The Mersenne Twister is   *)
(* replaced by a small full-period linear congruential generator: what the *)
(* model keeps is that random.seed(s) sets the one shared state from s     *)
(* alone and that every draw reads and advances that shared state.         *)
(***************************************************************************)
\* random.seed(seed)
RandomSeed(seed) == seed % 64

RngNext(s) == (13 * s + 7) % 64

\* a draw of 0 .. n-1: <<the value, the generator's next state>>
RandBelow(s, n) == <<(RngNext(s) * n) \div 64, RngNext(s)>>

\* (mutant) positions are drawn without removing them from the pool
RECURSIVE RandomSampleWithReplacement(_, _, _, _, _)
RandomSampleWithReplacement(pool, k, i, s, acc) ==
    IF i = k THEN <<acc, s>>
    ELSE RandomSampleWithReplacement(pool, k, i + 1, RandBelow(s, Len(pool))[2],
                                     Append(acc, pool[RandBelow(s, Len(pool))[1] + 1]))

\* random.sample(population, k), for the list sizes of the model (CPython's
\* pool branch): position j = randbelow(n - i) of the pool is taken and the
\* pool's last live entry is moved into it, so no position is taken twice.
\* <<the sample, the generator's next state>>
RECURSIVE RandomSample(_, _, _, _, _)
RandomSample(pool, k, i, s, acc) ==
    IF i = k THEN <<acc, s>>
    ELSE LET n == Len(pool)
             d == RandBelow(s, n - i)
             j == d[1] + 1
         IN  RandomSample([pool EXCEPT ![j] = pool[n - i]], k, i + 1, d[2],
                          Append(acc, pool[j]))

(***************************************************************************)
(* K-means clustering: l2_distance and KMeansClusterer.                    *)
(***************************************************************************)
\* sum((x - y) ** 2 for x, y in zip(a, b)): zip stops at the shorter vector.
\* l2_distance is its square root; distances are compared by their squares.
RECURSIVE L2Sq(_, _, _, _)
L2Sq(a, b, j, acc) ==
    IF j > Len(a) \/ j > Len(b) THEN acc
    ELSE LET d == RSub(a[j], b[j])
         IN  L2Sq(a, b, j + 1, RAdd(acc, RMul(d, d)))

l2_distance_sq(a, b) == L2Sq(a, b, 1, RInt(0))

\* (mutant) a centroid as near as the best so far replaces it
RECURSIVE NearestFromLastWins(_, _, _, _, _)
NearestFromLastWins(centroids, p, i, best_i, best_d) ==
    IF i > Len(centroids) THEN best_i
    ELSE IF best_d = <<>> THEN NearestFromLastWins(centroids, p, i + 1, i - 1, <<l2_distance_sq(p, centroids[i])>>)
    ELSE IF RLe(l2_distance_sq(p, centroids[i]), best_d[1]) THEN NearestFromLastWins(centroids, p, i + 1, i - 1, <<l2_distance_sq(p, centroids[i])>>)
    ELSE NearestFromLastWins(centroids, p, i + 1, best_i, best_d)

\* the loop of _nearest_centroid_index; best_d = <<>> is float("inf")
RECURSIVE NearestFrom(_, _, _, _, _)
NearestFrom(centroids, p, i, best_i, best_d) ==
    IF i > Len(centroids) THEN best_i
    ELSE LET d == l2_distance_sq(p, centroids[i])
         IN  IF best_d = <<>> \/ RLt(d, best_d[1])
             THEN NearestFrom(centroids, p, i + 1, i - 1, <<d>>)
             ELSE NearestFrom(centroids, p, i + 1, best_i, best_d)

\* KMeansClusterer._nearest_centroid_index: a 0-based index
nearest_centroid_index(centroids, p) == NearestFrom(centroids, p, 1, 0, <<>>)

\* _mean_vector raises IndexError when a point is shorter than the first one
MeanVectorRaises(points) == \E n \in 1..Len(points) : Len(points[n]) < Len(points[1])

RECURSIVE ColumnSum(_, _, _, _)
ColumnSum(points, j, n, acc) ==
    IF n > Len(points) THEN acc
    ELSE ColumnSum(points, j, n + 1, RAdd(acc, points[n][j]))

\* (mutant) the first point of the cluster instead of the mean
MeanVectorOfFirst(points) == points[1]

\* KMeansClusterer._mean_vector (of points that do not make it raise)
mean_vector(points) ==
    [j \in 1..Len(points[1]) |->
        RMul(ColumnSum(points, j, 1, RInt(0)), Rat(1, Len(points)))]

\* KMeansClusterer.__init__
NewKMeans(k, max_iter, seed) ==
    [k |-> k, max_iter |-> max_iter, seed |-> seed, centroids |-> <<>>, fitted |-> FALSE]

\* (mutant) the sample is not padded
PadCentroidsNone(centroids, k, first) == centroids

\* while len(self.centroids) < self.k: self.centroids.append(points[0][:])
RECURSIVE PadCentroids(_, _, _)
PadCentroids(centroids, k, first) ==
    IF Len(centroids) >= k THEN centroids
    ELSE PadCentroids(Append(centroids, first), k, first)

\* the initialisation of fit: seed, sample, pad. <<centroids, generator state>>
InitCentroids(points, k, seed) ==
    LET smp == RandomSample(points, Min(k, Len(points)), 0, RandomSeed(seed), <<>>)
    IN  <<PadCentroids(smp[1], k, points[1]), smp[2]>>

\* the assign loop: idx[n] = self._nearest_centroid_index(points[n])
Assignment(points, centroids) ==
    LET idx == [n \in 1..Len(points) |-> nearest_centroid_index(centroids, points[n])]
    IN  SubSeq(idx, 1, Len(idx))

\* clusters[i]: the points assigned to centroid i (0-based), in data order
RECURSIVE ClusterOf(_, _, _, _)
ClusterOf(points, idx, i, n) ==
    IF n > Len(points) THEN <<>>
    ELSE (IF idx[n] = i THEN <<points[n]>> ELSE <<>>)
         \o ClusterOf(points, idx, i, n + 1)

\* (mutant) an empty cluster gets the first point, without a draw
RECURSIVE RecomputeWithoutDraw(_, _, _, _, _, _)
RecomputeWithoutDraw(points, idx, k, i, s, acc) ==
    IF i = k THEN [centroids |-> acc, rng |-> s, raised |-> FALSE]
    ELSE IF ClusterOf(points, idx, i, 1) = <<>>
    THEN RecomputeWithoutDraw(points, idx, k, i + 1, s, Append(acc, points[1]))
    ELSE IF MeanVectorRaises(ClusterOf(points, idx, i, 1))
    THEN [centroids |-> acc, rng |-> s, raised |-> TRUE]
    ELSE RecomputeWithoutDraw(points, idx, k, i + 1, s,
                              Append(acc, mean_vector(ClusterOf(points, idx, i, 1))))

\* the recompute loop, for i in range(k): the mean of cluster i, or for an empty
\* cluster points[random.randint(0, len(points) - 1)].
\* [centroids, rng, raised]
RECURSIVE Recompute(_, _, _, _, _, _)
Recompute(points, idx, k, i, s, acc) ==
    IF i = k THEN [centroids |-> acc, rng |-> s, raised |-> FALSE]
    ELSE LET cl == ClusterOf(points, idx, i, 1)
         IN  IF cl = <<>>
             THEN LET d == RandBelow(s, Len(points))
                  IN  Recompute(points, idx, k, i + 1, d[2],
                                Append(acc, points[d[1] + 1]))
             ELSE IF MeanVectorRaises(cl)
             THEN [centroids |-> acc, rng |-> s, raised |-> TRUE]
             ELSE Recompute(points, idx, k, i + 1, s,
                            Append(acc, mean_vector(cl)))

\* shift < 1e-6, shift the sum of the distances between old and new centroids.
\* Every coordinate of the model is a rational of small denominator, so a
\* shift that is not zero is far above 1e-6: the test is that no centroid moved.
ShiftBelowThreshold(old, new) ==
    \A i \in 1..Min(Len(old), Len(new)) : l2_distance_sq(old[i], new[i]) = RInt(0)

\* the loop "for _ in range(self.max_iter)" from iteration it on.
\* [centroids, rng, raised, iterations]
RECURSIVE FitLoop(_, _, _, _, _, _)
FitLoop(points, centroids, k, max_iter, it, s) ==
    IF it >= max_iter
    THEN [centroids |-> centroids, rng |-> s, raised |-> FALSE, iterations |-> it]
    ELSE LET r == Recompute(points, Assignment(points, centroids), k, 0, s, <<>>)
         IN  IF r.raised
             THEN [centroids |-> centroids, rng |-> r.rng, raised |-> TRUE,
                   iterations |-> it]
             ELSE IF ShiftBelowThreshold(centroids, r.centroids)
             THEN [centroids |-> r.centroids, rng |-> r.rng, raised |-> FALSE,
                   iterations |-> it + 1]
             ELSE FitLoop(points, r.centroids, k, max_iter, it + 1, r.rng)

\* (mutant) fit on empty data leaves the object as it is
ClearedKMeansKeeps(km) == km

\* if not data: self.centroids = []; self._fitted = False
ClearedKMeans(km) == [km EXCEPT !.centroids = <<>>, !.fitted = FALSE]

\* (mutant) p[:] hands back the list itself
ListAliases(heap, ids) == [heap |-> heap, ids |-> ids]

\* [p[:] for p in ...]: lists are objects of a heap, a sequence of vectors
\* indexed by object id; each copy is a new object.  [heap, ids]
ListCopies(heap, ids) ==
    [ heap |-> heap \o [j \in 1..Len(ids) |-> heap[ids[j]]],
      ids |-> [j \in 1..Len(ids) |-> Len(heap) + j] ]

\* new lists holding the given vectors.  [heap, ids]
NewLists(heap, vectors) ==
    [ heap |-> heap \o vectors,
      ids |-> [j \in 1..Len(vectors) |-> Len(heap) + j] ]

\* the vectors of the listed objects
Deref(heap, ids) == [j \in 1..Len(ids) |-> heap[ids[j]]]

\* KMeansClusterer.fit(data) on the object km with the shared generator in
\* state s: [km, rng, raised, iterations].  An exception leaves _fitted as it
\* was and the centroids of the last completed iteration.
kmeans_fit(km, data, s) ==
    IF data = <<>>
    THEN [km |-> ClearedKMeans(km), rng |-> s, raised |-> FALSE, iterations |-> 0]
    ELSE LET points == [n \in 1..Len(data) |-> data[n].features]
             ini == InitCentroids(points, km.k, km.seed)
             r == FitLoop(points, ini[1], km.k, km.max_iter, 0, ini[2])
         IN  [km |-> [km EXCEPT !.centroids = r.centroids,
                                !.fitted = IF r.raised THEN km.fitted ELSE TRUE],
              rng |-> r.rng, raised |-> r.raised, iterations |-> r.iterations]

\* KMeansClusterer.predict
kmeans_predict(km, features) ==
    IF ~km.fitted \/ km.centroids = <<>> THEN 0
    ELSE nearest_centroid_index(km.centroids, features)

(***************************************************************************)
(* Glue: feature vector, query text and the orchestrator.                  *)
(***************************************************************************)
\* (mutant) total is used as given
FlooredTotalMissing(total) == total

\* total = max(1, total)
FlooredTotal(total) == Max(1, total)

\* a float division raises ZeroDivisionError on a zero divisor
DivisionRaises(divisor) == divisor = 0

\* (mutant) the programming percentage before the logic percentage
BuildFeatureVectorSwapped(score, total, logic, programming, networking, design, interests_text, behavior_score) ==
    LET t == FlooredTotal(total)
    IN  << Rat(score * 100, t), Rat(programming * 100, t), Rat(logic * 100, t),
           Rat(networking * 100, t), Rat(design * 100, t),
           RInt(Len(tokenize(interests_text))), behavior_score >>

\* build_student_feature_vector (of a total whose division does not raise)
build_student_feature_vector(score, total, logic, programming, networking, design, interests_text, behavior_score) ==
    LET t == FlooredTotal(total)
    IN  << Rat(score * 100, t), Rat(logic * 100, t), Rat(programming * 100, t),
           Rat(networking * 100, t), Rat(design * 100, t),
           RInt(Len(tokenize(interests_text))), behavior_score >>

\* strengths.get(key, 0)
StrengthGet(strengths, key) == IF key \in DOMAIN strengths THEN strengths[key] ELSE 0

\* (mutant) a strength of zero adds the keywords too
StrengthTermsNonNegative(strengths) ==
    (IF StrengthGet(strengths, "programming") >= 0
     THEN <<"programming", "software", "coding", "algorithms">> ELSE <<>>)
    \o (IF StrengthGet(strengths, "networking") >= 0
        THEN <<"networking", "systems", "infrastructure", "security">> ELSE <<>>)
    \o (IF StrengthGet(strengths, "logic") >= 0
        THEN <<"analysis", "systems", "analysis", "requirements", "database">> ELSE <<>>)
    \o (IF StrengthGet(strengths, "design") >= 0
        THEN <<"design", "multimedia", "instructional", "teaching">> ELSE <<>>)

\* strengths.get(key, 0) > 0 adds the category's keywords; "systems analysis"
\* is one list entry and two words of the joined text
StrengthTerms(strengths) ==
    (IF StrengthGet(strengths, "programming") > 0
     THEN <<"programming", "software", "coding", "algorithms">> ELSE <<>>)
    \o (IF StrengthGet(strengths, "networking") > 0
        THEN <<"networking", "systems", "infrastructure", "security">> ELSE <<>>)
    \o (IF StrengthGet(strengths, "logic") > 0
        THEN <<"analysis", "systems", "analysis", "requirements", "database">> ELSE <<>>)
    \o (IF StrengthGet(strengths, "design") > 0
        THEN <<"design", "multimedia", "instructional", "teaching">> ELSE <<>>)

\* build_student_query_text
build_student_query_text(interests, career_goals, year_level, strengths) ==
    interests \o career_goals \o year_level \o StrengthTerms(strengths)

\* (mutant) the clusterer is asked about the first historical student
PredictedClusterOfFirst(km, feature_vec, historical_students) ==
    kmeans_predict(km, historical_students[1].features)

\* cluster_id = km.predict(feature_vec)
PredictedCluster(km, feature_vec, historical_students) ==
    kmeans_predict(km, feature_vec)

\* program_filter=program
OrchProgramFilter(program) == program

\* The orchestrator, recommend_with_kmeans_and_cbf(**a) with the shared
\* generator in state s, in the order of its body.  Its outcome is
\* [raised, rng, km] (whether it raised, the generator's state after the call
\* and <<the clusterer it constructed>>, if any) and, when nothing was raised,
\* the six fields of the returned dict.

\* "# --- CBF course recommendation ---" and the return statement
OrchRankAndReturn(a, s, km, cluster_id, cls) ==
    [ raised |-> FALSE, rng |-> s, km |-> km,
      user_id |-> a.user_id,
      cluster_id |-> cluster_id,
      recommended_program |-> cls.program,
      confidence |-> cls.confidence,
      message |-> cls.rationale,
      course_recommendations |->
          IF a.courses # <<>>
          THEN RankedRecommendations(CBFFitted(a.courses),
                   build_student_query_text(a.interests, a.career_goals,
                       a.year_level,
                       [logic |-> a.logic, programming |-> a.programming,
                        networking |-> a.networking, design |-> a.design]),
                   a.courses, a.top_n_courses, OrchProgramFilter(cls.program))
          ELSE <<>> ]

\* "# --- Program recommendation ---" and what follows it
OrchClassifyOnward(a, s, km, cluster_id) ==
    OrchRankAndReturn(a, s, km, cluster_id,
        recommend_program_from_signals(a.score, a.total, a.logic,
            a.programming, a.networking, a.design, cluster_id))

\* after km.fit(historical_students): the exception of fit leaves the
\* function; otherwise cluster_id = km.predict(feature_vec)
OrchAfterFit(a, fit, feature_vec) ==
    IF fit.raised
    THEN [raised |-> TRUE, rng |-> fit.rng, km |-> <<fit.km>>]
    ELSE OrchClassifyOnward(a, fit.rng, <<fit.km>>,
             PredictedCluster(fit.km, feature_vec, a.historical_students))

\* "# --- KMeans ---": cluster_id = 0, or a KMeansClusterer(k=4) fitted on a
\* non-empty population
OrchClusterOnward(a, s, feature_vec) ==
    IF a.historical_students # <<>>
    THEN OrchAfterFit(a, kmeans_fit(NewKMeans(4, 50, 42), a.historical_students, s),
                      feature_vec)
    ELSE OrchClassifyOnward(a, s, <<>>, 0)

recommend_with_kmeans_and_cbf(a, s) ==
    IF DivisionRaises(FlooredTotal(a.total))
    THEN [raised |-> TRUE, rng |-> s, km |-> <<>>]
    ELSE OrchClusterOnward(a, s,
             build_student_feature_vector(a.score, a.total, a.logic,
                 a.programming, a.networking, a.design, a.interests,
                 a.behavior_score))

(***************************************************************************)
(* Specification SpecClassify: one call of the classifier on arbitrary     *)
(* integer arguments.                                                      *)
(***************************************************************************)
Strengths == -1 .. MaxStrength

ClassifyArgs ==
    [ score : -1 .. MaxTotal + 1, total : -1 .. MaxTotal,
      logic : Strengths, programming : Strengths,
      networking : Strengths, design : Strengths,
      cluster_id : -2 .. MaxClusterId ]

\* the recommender is not used
CbfIdle == cbf = NewCBF /\ cbfIn = <<>> /\ cbfOut = NotCalled

\* the orchestrator is not used
OrchIdle == rng = 0 /\ clusterer = <<>> /\ orchIn = <<>> /\ orchOut = <<>>

KmIdle == kmLast = <<>> /\ fits = <<>> /\ others = <<>>

\* the build_student_* functions are not called on their own
GlueIdle == glueIn = <<>> /\ glueOut = <<>>

\* cosine_sim_sparse is not called on its own
CosIdle == cosIn = <<>> /\ cosOut = <<>>

\* the recommendation service handles no request
RecIdle == store = <<>> /\ handler = <<>>

\* the gateway handles no request
GwIdle == gw = <<>>

InitClassify ==
    /\ clsIn \in ClassifyArgs
    /\ clsOut = NotCalled
    /\ CbfIdle
    /\ OrchIdle
    /\ KmIdle
    /\ GlueIdle
    /\ CosIdle
    /\ RecIdle
    /\ GwIdle

Classify ==
    /\ clsOut = NotCalled
    /\ clsOut' = Returned(recommend_program_from_signals(
                     clsIn.score, clsIn.total, clsIn.logic, clsIn.programming,
                     clsIn.networking, clsIn.design, clsIn.cluster_id))
    /\ UNCHANGED <<clsIn, cbfVars, orchVars, kmVars, glueVars, cosVars, recVars, gwVars>>

NextClassify == Classify

SpecClassify == InitClassify /\ [][NextClassify]_vars

(***************************************************************************)
(* Specification SpecCBF: one CBFRecommender object, optionally fitted     *)
(* (on the corpus of the call or on another one), then asked to recommend. *)
(***************************************************************************)
Course(id, code, title, program, tags) ==
    [ id |-> id, code |-> code, title |-> title, description |-> <<>>,
      program |-> program, level |-> <<>>, tags |-> tags ]

\* The courses corpora are built from: two CS courses of identical content,
\* an IS course that shares its id with the first CS course, a course with
\* a repeated token, and a course with no text at all.
CoursePool ==
    { Course(1, <<"CS101">>, <<"Programming">>, "CS", <<"coding", "algorithms">>),
      Course(4, <<"CS101">>, <<"Programming">>, "CS", <<"coding", "algorithms">>),
      Course(1, <<"IS301">>, <<"Database">>, "IS", <<"analysis">>),
      Course(2, <<"IT201">>, <<"Networking">>, "IT", <<"security", "networking">>),
      Course(5, <<>>, <<>>, "", <<>>) }

SeqsUpTo(S, n) == UNION {[1..m -> S] : m \in 0..n}

Corpora == SeqsUpTo(CoursePool, MaxCourses)

\* a query with a repeated token (after lower-casing), and one with a token
\* no course holds
QueryTexts ==
    { <<"Programming", "coding", "programming">>,
      <<"networking", "quantum">> }

\* program_filter: None is ""
ProgramFilters == {"", "CS", "IT"}

\* the corpus a recommender may have been fitted on before the call
OtherCorpus ==
    << Course(1, <<"IS301">>, <<"Database">>, "IS", <<"analysis">>),
       Course(2, <<"IT201">>, <<"Networking">>, "IT", <<"security", "networking">>) >>

ClsIdle == clsIn = <<>> /\ clsOut = NotCalled

InitCBF ==
    /\ cbf = NewCBF
    /\ cbfIn \in [ student_text : QueryTexts, courses : Corpora,
                   top_n : 0 .. MaxTopN, program_filter : ProgramFilters ]
    /\ cbfOut = NotCalled
    /\ ClsIdle
    /\ OrchIdle
    /\ KmIdle
    /\ GlueIdle
    /\ CosIdle
    /\ RecIdle
    /\ GwIdle

\* cbf.fit(courses)
CBFFit ==
    /\ cbfOut = NotCalled
    /\ \E courses \in {cbfIn.courses, OtherCorpus} : cbf' = CBFFitted(courses)
    /\ UNCHANGED <<cbfIn, cbfOut, clsVars, orchVars, kmVars, glueVars, cosVars, recVars, gwVars>>

\* cbf.recommend(student_text, courses, top_n, program_filter)
CBFRecommend ==
    /\ cbfOut = NotCalled
    /\ cbf' = LazyFit(cbf, cbfIn.courses)
    /\ cbfOut' = Returned(RankedRecommendations(cbf', cbfIn.student_text,
                     cbfIn.courses, cbfIn.top_n, cbfIn.program_filter))
    /\ UNCHANGED <<cbfIn, clsVars, orchVars, kmVars, glueVars, cosVars, recVars, gwVars>>

NextCBF == CBFFit \/ CBFRecommend

SpecCBF == InitCBF /\ [][NextCBF]_vars

(***************************************************************************)
(* Specification SpecOrch: two calls of recommend_with_kmeans_and_cbf, one *)
(* after the other, with the same student signals, corpus and top_n and    *)
(* with one historical population each.                                    *)
(***************************************************************************)
Vec(ints) == [j \in 1..Len(ints) |-> RInt(ints[j])]

StudentVector(user_id, ints) == [user_id |-> user_id, features |-> Vec(ints)]

\* Historical populations: none; a single student; four distinct students
\* in two orders; and one whose stored vectors differ in length.
HistPopulations ==
    << <<>>,
      << StudentVector(11, <<25, 0, 25, 0, 0, 0, 0>>) >>,
      << StudentVector(11, <<25, 0, 25, 0, 0, 0, 0>>),
         StudentVector(12, <<75, 25, 25, 25, 0, 2, 0>>),
         StudentVector(13, <<100, 0, 0, 100, 100, 0, 0>>),
         StudentVector(14, <<300, 100, 100, 100, 100, 2, 0>>) >>,
      << StudentVector(14, <<300, 100, 100, 100, 100, 2, 0>>),
         StudentVector(13, <<100, 0, 0, 100, 100, 0, 0>>),
         StudentVector(12, <<75, 25, 25, 25, 0, 2, 0>>),
         StudentVector(11, <<25, 0, 25, 0, 0, 0, 0>>) >>,
      << StudentVector(15, <<25, 0>>), StudentVector(16, <<25>>) >> >>

\* the populations of the two calls: two different ones
HistPairs ==
    LET n == Len(HistPopulations)
    IN  { <<HistPopulations[p[1]], HistPopulations[p[2]]>> :
            p \in { q \in (1..n) \X (1..n) : q[1] < q[2] } }

\* <<logic, programming, networking, design>>: all zero, all equal, one
\* strongest category, and ties for the maximum
StrengthProfiles ==
    { <<0, 0, 0, 0>>,
      <<MaxStrength, MaxStrength, MaxStrength, MaxStrength>>,
      <<0, MaxStrength, 0, 0>>,
      <<0, 0, 0, MaxStrength>>,
      <<0, MaxStrength, MaxStrength, 0>>,
      <<MaxStrength, 0, MaxStrength, MaxStrength>> }

\* <<interests, career_goals, year_level>>: all empty, or all given
ProfileTexts ==
    { << <<>>, <<>>, <<>> >>,
      << <<"Coding", "security">>, <<"analyst">>, <<"2nd">> >> }

\* Corpora: none; courses tagged CS, IT and IS; and a BTVTED course, two CS
\* courses and an IS course that shares its id with the second CS course
OrchCorpora ==
    { <<>>,
      << Course(1, <<"CS101">>, <<"Programming">>, "CS", <<"coding", "algorithms">>),
         Course(2, <<"IT201">>, <<"Networking">>, "IT", <<"security", "networking">>),
         Course(3, <<"IS301">>, <<"Database">>, "IS", <<"analysis">>) >>,
      << Course(6, <<"ED401">>, <<"Design">>, "BTVTED", <<"multimedia", "teaching">>),
         Course(4, <<"CS101">>, <<"Programming">>, "CS", <<"software">>),
         Course(1, <<"CS101">>, <<"Programming">>, "CS", <<"coding", "algorithms">>),
         Course(1, <<"IS301">>, <<"Database">>, "IS", <<"analysis">>) >> }

InitOrch ==
    /\ rng = 0
    /\ clusterer = <<>>
    /\ \E st \in StrengthProfiles, tx \in ProfileTexts :
         orchIn \in [ user_id : {7},
                      score : {MaxTotal - 1}, total : {-1, 0, MaxTotal},
                      logic : {st[1]}, programming : {st[2]},
                      networking : {st[3]}, design : {st[4]},
                      interests : {tx[1]}, career_goals : {tx[2]},
                      year_level : {tx[3]}, behavior_score : {RInt(0)},
                      courses : OrchCorpora, top_n_courses : 0 .. MaxTopN,
                      hist : HistPairs ]
    /\ orchOut = <<>>
    /\ ClsIdle
    /\ CbfIdle
    /\ KmIdle
    /\ GlueIdle
    /\ CosIdle
    /\ RecIdle
    /\ GwIdle

\* the keyword arguments of call i
OrchArgs(i) ==
    [ user_id |-> orchIn.user_id, score |-> orchIn.score, total |-> orchIn.total,
      logic |-> orchIn.logic, programming |-> orchIn.programming,
      networking |-> orchIn.networking, design |-> orchIn.design,
      interests |-> orchIn.interests, career_goals |-> orchIn.career_goals,
      year_level |-> orchIn.year_level, behavior_score |-> orchIn.behavior_score,
      historical_students |-> orchIn.hist[i],
      courses |-> orchIn.courses, top_n_courses |-> orchIn.top_n_courses ]

\* recommend_with_kmeans_and_cbf(...)
Orchestrate ==
    /\ Len(orchOut) < 2
    /\ LET r == recommend_with_kmeans_and_cbf(OrchArgs(Len(orchOut) + 1), rng)
       IN  /\ orchOut' = Append(orchOut, r)
           /\ rng' = r.rng
           /\ clusterer' = IF r.km = <<>> THEN clusterer ELSE r.km
    /\ UNCHANGED <<orchIn, clsVars, cbfVars, kmVars, glueVars, cosVars, recVars, gwVars>>

NextOrch == Orchestrate

SpecOrch == InitOrch /\ [][NextOrch]_vars

(***************************************************************************)
(* Specification SpecKM: one KMeansClusterer object, constructed with any  *)
(* k >= 1 and max_iter >= 0, on which fit and predict are called in any    *)
(* order, each call running alone.                                         *)
(***************************************************************************)
MaxK == 2          \* k ranges over 1 .. MaxK
MaxIter == 3       \* max_iter ranges over 0 .. MaxIter
MaxCalls == 3      \* at most MaxCalls calls are made on the object

\* Data sets: none; one point; three points; five points of which two
\* coincide; a longer vector before a shorter one that is as near to every
\* centroid (zip stops at the shorter vector); a shorter before a longer
KMData ==
    { <<>>,
      << StudentVector(1, <<2, 4>>) >>,
      << StudentVector(1, <<0, 0>>), StudentVector(2, <<6, 0>>),
         StudentVector(3, <<0, 3>>) >>,
      << StudentVector(1, <<0, 0>>), StudentVector(2, <<1, 0>>),
         StudentVector(3, <<10, 10>>), StudentVector(4, <<10, 10>>),
         StudentVector(5, <<11, 9>>) >>,
      << StudentVector(1, <<1, 2, 3>>), StudentVector(2, <<1, 2>>),
         StudentVector(3, <<9, 9>>) >>,
      << StudentVector(1, <<1, 2>>), StudentVector(2, <<1, 2, 3>>) >> }

\* points = [sv.features for sv in data]
PointsOf(data) == [n \in 1..Len(data) |-> data[n].features]

\* feature vectors asked about: of the data's dimension, longer, and empty
KMFeatures == { Vec(<<0, 0>>), Vec(<<10, 9, 1>>), <<>> }

InitKM ==
    /\ rng \in {0, 5}
    /\ \E k \in 1..MaxK, max_iter \in 0..MaxIter :
           clusterer = <<NewKMeans(k, max_iter, 42)>>
    /\ kmLast = <<>>
    /\ fits = <<>>
    /\ others = <<>>
    /\ GlueIdle
    /\ CosIdle
    /\ RecIdle
    /\ GwIdle
    /\ orchIn = <<>>
    /\ orchOut = <<>>
    /\ ClsIdle
    /\ CbfIdle

KMCalls == IF kmLast = <<>> THEN 0 ELSE kmLast[1].calls

\* the most recent fit call was fit([])
KMLastFitEmpty == kmLast # <<>> /\ kmLast[1].last_fit_empty

\* an earlier fit on non-empty data has returned
KMSucceeded == kmLast # <<>> /\ kmLast[1].succeeded

\* clusterer.fit(data)
KMFit ==
    /\ KMCalls < MaxCalls
    /\ \E data \in KMData :
         LET r == kmeans_fit(clusterer[1], data, rng)
         IN  /\ clusterer' = <<r.km>>
             /\ rng' = r.rng
             /\ kmLast' = << [ op |-> "fit", data |-> data, features |-> <<>>,
                               raised |-> r.raised, ret |-> 0,
                               iterations |-> r.iterations,
                               before |-> clusterer[1],
                               calls |-> KMCalls + 1,
                               last_fit_empty |-> data = <<>>,
                               succeeded_before |-> KMSucceeded,
                               succeeded |-> \/ KMSucceeded
                                             \/ (data # <<>> /\ ~r.raised) ] >>
    /\ UNCHANGED <<fits, others, orchIn, orchOut, clsVars, cbfVars, glueVars, cosVars, recVars, gwVars>>

\* clusterer.predict(features)
KMPredict ==
    /\ KMCalls < MaxCalls
    /\ \E features \in KMFeatures :
         kmLast' = << [ op |-> "predict", data |-> <<>>, features |-> features,
                        raised |-> FALSE,
                        ret |-> kmeans_predict(clusterer[1], features),
                        iterations |-> 0,
                        before |-> clusterer[1],
                        calls |-> KMCalls + 1,
                        last_fit_empty |-> KMLastFitEmpty,
                        succeeded_before |-> KMSucceeded,
                        succeeded |-> KMSucceeded ] >>
    /\ UNCHANGED <<clusterer, rng, fits, others, orchIn, orchOut, clsVars, cbfVars, glueVars, cosVars, recVars, gwVars>>

NextKM == KMFit \/ KMPredict

SpecKM == InitKM /\ [][NextKM]_vars

(***************************************************************************)
(* Specification SpecFit: two threads, each calling fit on a clusterer of  *)
(* its own, step by step and in any interleaving, while other code draws   *)
(* from or reseeds the generator of module random that the fits use.       *)
(***************************************************************************)
MaxOther == 1      \* other code touches the generator at most MaxOther times

Threads == {1, 2}

\* Data sets: one point; three points; a longer vector before a shorter one
FitData ==
    { << StudentVector(1, <<2, 4>>) >>,
      << StudentVector(1, <<0, 0>>), StudentVector(2, <<6, 0>>),
         StudentVector(3, <<0, 3>>) >>,
      << StudentVector(1, <<1, 2, 3>>), StudentVector(2, <<1, 2>>),
         StudentVector(3, <<9, 9>>) >> }

\* A thread before its call: pc is the position in fit, km the object, it the
\* number of iterations completed, shifts[n] whether iteration n ended with a
\* shift below the threshold; alone is what the same fit leaves when it runs
\* with nothing else touching the generator.
FitIdle(k, max_iter) ==
    [ pc |-> "idle", km |-> NewKMeans(k, max_iter, 42), data |-> <<>>,
      it |-> 0, shifts |-> <<>>, alone |-> <<>> ]

InitFit ==
    /\ rng \in {0, 5}
    /\ others = [rng |-> rng, count |-> 0]
    /\ \E k \in 1..MaxK, max_iter \in 0..MaxIter :
           fits = [t \in Threads |-> FitIdle(k, max_iter)]
    /\ clusterer = <<>>
    /\ kmLast = <<>>
    /\ GlueIdle
    /\ CosIdle
    /\ RecIdle
    /\ GwIdle
    /\ orchIn = <<>>
    /\ orchOut = <<>>
    /\ ClsIdle
    /\ CbfIdle

FitUnchanged == UNCHANGED <<clusterer, kmLast, orchIn, orchOut, clsVars, cbfVars, glueVars, cosVars, recVars, gwVars>>

\* fit(data) is entered with non-empty data: random.seed(self.seed)
FitSeed(t) ==
    /\ fits[t].pc = "idle"
    /\ \E data \in FitData :
         fits' = [fits EXCEPT ![t].pc = "seeded", ![t].data = data,
                      ![t].alone = <<kmeans_fit(fits[t].km, data, 0).km>>]
    /\ rng' = RandomSeed(fits[t].km.seed)
    /\ UNCHANGED others
    /\ FitUnchanged

\* self.centroids = [p[:] for p in random.sample(points, k=min(self.k, len(points)))]
FitSample(t) ==
    /\ fits[t].pc = "seeded"
    /\ LET points == PointsOf(fits[t].data)
           smp == RandomSample(points, Min(fits[t].km.k, Len(points)), 0, rng, <<>>)
       IN  /\ fits' = [fits EXCEPT ![t].pc = "sampled", ![t].km.centroids = smp[1]]
           /\ rng' = smp[2]
    /\ UNCHANGED others
    /\ FitUnchanged

\* while len(self.centroids) < self.k: self.centroids.append(points[0][:])
FitPad(t) ==
    /\ fits[t].pc = "sampled"
    /\ fits' = [fits EXCEPT ![t].pc = "loop",
                    ![t].km.centroids = PadCentroids(fits[t].km.centroids,
                                            fits[t].km.k, fits[t].data[1].features)]
    /\ UNCHANGED <<rng, others>>
    /\ FitUnchanged

\* the loop has not ended: range(max_iter) is not exhausted and no break
FitLooping(t) ==
    /\ fits[t].pc = "loop"
    /\ fits[t].it < fits[t].km.max_iter
    /\ IF fits[t].shifts = <<>> THEN TRUE ELSE ~fits[t].shifts[Len(fits[t].shifts)]

\* one iteration of the loop: assign, recompute, measure the shift, store
FitIterate(t) ==
    /\ FitLooping(t)
    /\ LET points == PointsOf(fits[t].data)
           old == fits[t].km.centroids
           r == Recompute(points, Assignment(points, old), fits[t].km.k, 0, rng, <<>>)
       IN  /\ rng' = r.rng
           /\ fits' = IF r.raised
                      THEN [fits EXCEPT ![t].pc = "raised"]
                      ELSE [fits EXCEPT ![t].km.centroids = r.centroids,
                                ![t].it = fits[t].it + 1,
                                ![t].shifts = Append(fits[t].shifts,
                                                  ShiftBelowThreshold(old, r.centroids))]
    /\ UNCHANGED others
    /\ FitUnchanged

\* self._fitted = True
FitFinish(t) ==
    /\ fits[t].pc = "loop"
    /\ ~FitLooping(t)
    /\ fits' = [fits EXCEPT ![t].pc = "done", ![t].km.fitted = TRUE]
    /\ UNCHANGED <<rng, others>>
    /\ FitUnchanged

\* other code draws a number from the generator
OtherDraw ==
    /\ others.count < MaxOther
    /\ rng' = RngNext(rng)
    /\ others' = [rng |-> RngNext(others.rng), count |-> others.count + 1]
    /\ UNCHANGED fits
    /\ FitUnchanged

\* other code reseeds the generator
OtherSeed ==
    /\ others.count < MaxOther
    /\ \E seed \in {1, 42} :
         /\ rng' = RandomSeed(seed)
         /\ others' = [rng |-> RandomSeed(seed), count |-> others.count + 1]
    /\ UNCHANGED fits
    /\ FitUnchanged

NextFit ==
    \/ \E t \in Threads :
         FitSeed(t) \/ FitSample(t) \/ FitPad(t) \/ FitIterate(t) \/ FitFinish(t)
    \/ OtherDraw
    \/ OtherSeed

SpecFit == InitFit /\ [][NextFit]_vars

(***************************************************************************)
(* Specification SpecGlue: build_student_feature_vector and                *)
(* build_student_query_text, each called once on the same student signals. *)
(***************************************************************************)
Categories == {"logic", "programming", "networking", "design"}

\* strengths: a dict that may lack any of the four keys, with values that
\* are negative, zero, or positive of two magnitudes at least
StrengthDicts ==
    UNION { [keys -> -1 .. (MaxStrength + 1)] : keys \in SUBSET Categories }

\* <<score, total>>: the spec's example, a total that is positive, zero,
\* negative
ScoreTotals == { <<50, 100>>, <<MaxTotal - 1, MaxTotal>>, <<MaxTotal - 1, 0>>, <<1, -1>> }

\* <<interests, career_goals, year_level>>: all empty; all given; interests
\* that spell the networking keywords
GlueTexts ==
    { << <<>>, <<>>, <<>> >>,
      << <<"Web", "dev">>, <<"analyst">>, <<"2nd">> >>,
      << <<"networking", "systems", "infrastructure", "security">>, <<>>, <<"1st">> >> }

InitGlue ==
    /\ \E st \in ScoreTotals, tx \in GlueTexts :
         glueIn \in [ score : {st[1]}, total : {st[2]}, strengths : StrengthDicts,
                      interests : {tx[1]}, career_goals : {tx[2]},
                      year_level : {tx[3]}, behavior_score : {RInt(0), Rat(1, 2)} ]
    /\ glueOut = [vector |-> NotCalled, text |-> NotCalled, raised |-> FALSE]
    /\ CosIdle
    /\ RecIdle
    /\ GwIdle
    /\ rng = 0
    /\ clusterer = <<>>
    /\ orchIn = <<>>
    /\ orchOut = <<>>
    /\ kmLast = <<>>
    /\ fits = <<>>
    /\ others = <<>>
    /\ ClsIdle
    /\ CbfIdle

GlueUnchanged == UNCHANGED <<glueIn, clsVars, cbfVars, orchVars, kmVars, cosVars, recVars, gwVars>>

\* build_student_feature_vector(score, total, logic, ..., interests, behavior_score)
\* a division by zero raises and nothing is returned
BuildFeatureVector ==
    /\ glueOut.vector = NotCalled
    /\ ~glueOut.raised
    /\ glueOut' =
         IF DivisionRaises(FlooredTotal(glueIn.total))
         THEN [glueOut EXCEPT !.raised = TRUE]
         ELSE [glueOut EXCEPT !.vector =
                  Returned(build_student_feature_vector(glueIn.score, glueIn.total,
                      StrengthGet(glueIn.strengths, "logic"),
                      StrengthGet(glueIn.strengths, "programming"),
                      StrengthGet(glueIn.strengths, "networking"),
                      StrengthGet(glueIn.strengths, "design"),
                      glueIn.interests, glueIn.behavior_score))]
    /\ GlueUnchanged

\* build_student_query_text(interests, career_goals, year_level, strengths)
BuildQueryText ==
    /\ glueOut.text = NotCalled
    /\ glueOut' = [glueOut EXCEPT !.text =
           Returned(build_student_query_text(glueIn.interests,
               glueIn.career_goals, glueIn.year_level, glueIn.strengths))]
    /\ GlueUnchanged

NextGlue == BuildFeatureVector \/ BuildQueryText

SpecGlue == InitGlue /\ [][NextGlue]_vars

(***************************************************************************)
(* Specification SpecCosine: cosine_sim_sparse called on two sparse        *)
(* vectors, in both argument orders and on the first with itself.          *)
(***************************************************************************)
\* the weights of a sparse vector
CosWeights == {RInt(0), RInt(1), Rat(5, 4), Rat(3, 2)}

\* the dicts whose keys were inserted in the order keys
DictsOver(keys) == { [i \in 1 .. Len(keys) |-> <<keys[i], w[i]>>] : w \in [1 .. Len(keys) -> CosWeights] }

\* the insertion orders of the first and of the second vector
KeyOrdersA == { <<>>, <<"x">>, <<"x", "y">>, <<"x", "y", "z">> }

KeyOrdersB == { <<>>, <<"y">>, <<"x", "z", "y">>, <<"y", "z", "x">> }

InitCosine ==
    /\ \E ka \in KeyOrdersA, kb \in KeyOrdersB :
         cosIn \in [a : DictsOver(ka), b : DictsOver(kb)]
    /\ cosOut = <<>>
    /\ rng = 0
    /\ clusterer = <<>>
    /\ orchIn = <<>>
    /\ orchOut = <<>>
    /\ KmIdle
    /\ ClsIdle
    /\ CbfIdle
    /\ GlueIdle
    /\ RecIdle
    /\ GwIdle

\* cosine_sim_sparse(a, b), cosine_sim_sparse(b, a), cosine_sim_sparse(a, a)
CosineSim ==
    /\ cosOut = <<>>
    /\ cosOut' = [ ab |-> cosine_sim_sparse_float(cosIn.a, cosIn.b),
                   ba |-> cosine_sim_sparse_float(cosIn.b, cosIn.a),
                   aa |-> cosine_sim_sparse_float(cosIn.a, cosIn.a) ]
    /\ UNCHANGED <<cosIn, clsVars, cbfVars, orchVars, kmVars, glueVars, recVars, gwVars>>

NextCosine == CosineSim

SpecCosine == InitCosine /\ [][NextCosine]_vars

(***************************************************************************)
(* Specification SpecRefit: one CBFRecommender object on which fit and     *)
(* recommend are called, at most MaxCalls times in all and in any order,   *)
(* each call with the corpus of the request or with another corpus.        *)
(***************************************************************************)
InitRefit ==
    /\ cbf = NewCBF
    /\ cbfIn \in [ student_text : {<<"networking", "quantum">>}, courses : Corpora,
                   top_n : {MaxTopN}, program_filter : {""} ]
    /\ cbfOut = [ ret |-> NotCalled, op |-> "none", corpus |-> <<>>,
                  before |-> NewCBF, fitted_on |-> NotCalled, calls |-> 0 ]
    /\ rng = 0
    /\ clusterer = <<>>
    /\ orchIn = <<>>
    /\ orchOut = <<>>
    /\ KmIdle
    /\ ClsIdle
    /\ GlueIdle
    /\ CosIdle
    /\ RecIdle
    /\ GwIdle

RefitUnchanged == UNCHANGED <<cbfIn, clsVars, orchVars, kmVars, glueVars, cosVars, recVars, gwVars>>

\* cbf.fit(courses)
RefitFit ==
    /\ cbfOut.calls < MaxCalls
    /\ \E courses \in {cbfIn.courses, OtherCorpus} :
         /\ cbf' = CBFFitted(courses)
         /\ cbfOut' = [ ret |-> NotCalled, op |-> "fit", corpus |-> courses,
                        before |-> cbf, fitted_on |-> Returned(courses),
                        calls |-> cbfOut.calls + 1 ]
    /\ RefitUnchanged

\* cbf.recommend(student_text, courses, top_n, program_filter)
RefitRecommend ==
    /\ cbfOut.calls < MaxCalls
    /\ \E courses \in {cbfIn.courses, OtherCorpus} :
         /\ cbf' = LazyFit(cbf, courses)
         /\ cbfOut' = [ ret |-> Returned(RankedRecommendations(cbf', cbfIn.student_text,
                                   courses, cbfIn.top_n, cbfIn.program_filter)),
                        op |-> "recommend", corpus |-> courses, before |-> cbf,
                        fitted_on |-> IF cbf.fitted THEN cbfOut.fitted_on ELSE Returned(courses),
                        calls |-> cbfOut.calls + 1 ]
    /\ RefitUnchanged

NextRefit == RefitFit \/ RefitRecommend

SpecRefit == InitRefit /\ [][NextRefit]_vars

(***************************************************************************)
(* Specification SpecLloyd: one fit, step by step and alone, with the      *)
(* lists of the input and of the centroids kept as objects of a heap and   *)
(* the locals of the last iteration kept, followed by predict calls.       *)
(***************************************************************************)
\* Data sets: one point; three points on a line, the third midway between
\* the others; five points of which two coincide; a shorter vector before a
\* longer one; a longer before a shorter
LloydData ==
    { << StudentVector(1, <<2, 4>>) >>,
      << StudentVector(1, <<0, 0>>), StudentVector(2, <<4, 0>>),
         StudentVector(3, <<2, 0>>) >>,
      << StudentVector(1, <<0, 0>>), StudentVector(2, <<1, 0>>),
         StudentVector(3, <<10, 10>>), StudentVector(4, <<10, 10>>),
         StudentVector(5, <<11, 9>>) >>,
      << StudentVector(1, <<1, 2>>), StudentVector(2, <<1, 2, 3>>) >>,
      << StudentVector(1, <<1, 2, 3>>), StudentVector(2, <<1, 2>>),
         StudentVector(3, <<9, 9>>) >> }

\* feature vectors asked about
LloydFeatures == { Vec(<<0, 0>>), Vec(<<2, 0>>), Vec(<<10, 9, 1>>), <<>> }

LloydSeeds == {42, 1, 3}

\* the objects of the input: data[n].features is object n
InputIds(data) == [n \in 1..Len(data) |-> n]

InitLloyd ==
    /\ rng \in {0, 5}
    /\ \E k \in 1..MaxK, max_iter \in 0..MaxIter, seed \in LloydSeeds, data \in LloydData :
           fits = [ pc |-> "idle", km |-> NewKMeans(k, max_iter, seed), data |-> data,
                    heap |-> PointsOf(data), it |-> 0, prev |-> <<>>, idx |-> <<>>,
                    rng0 |-> 0 ]
    /\ kmLast = <<>>
    /\ others = <<>>
    /\ clusterer = <<>>
    /\ orchIn = <<>>
    /\ orchOut = <<>>
    /\ ClsIdle
    /\ CbfIdle
    /\ GlueIdle
    /\ CosIdle
    /\ RecIdle
    /\ GwIdle

LloydUnchanged == UNCHANGED <<clusterer, others, orchIn, orchOut, clsVars, cbfVars, glueVars, cosVars, recVars, gwVars>>

\* fit(data) is entered with non-empty data: random.seed(self.seed)
LloydSeed ==
    /\ fits.pc = "idle"
    /\ fits' = [fits EXCEPT !.pc = "seeded"]
    /\ rng' = RandomSeed(fits.km.seed)
    /\ UNCHANGED kmLast
    /\ LloydUnchanged

\* the objects random.sample takes from points, copied
SampledCopies(f, s) == ListCopies(f.heap, RandomSample(InputIds(f.data), Min(f.km.k, Len(f.data)), 0, s, <<>>)[1])

\* self.centroids = [p[:] for p in random.sample(points, k=min(self.k, len(points)))]
LloydSample ==
    /\ fits.pc = "seeded"
    /\ fits' = [fits EXCEPT !.pc = "sampled", !.heap = SampledCopies(fits, rng).heap,
                            !.km.centroids = SampledCopies(fits, rng).ids]
    /\ rng' = RandomSample(InputIds(fits.data), Min(fits.km.k, Len(fits.data)), 0, rng, <<>>)[2]
    /\ UNCHANGED kmLast
    /\ LloydUnchanged

\* the copies of points[0] the padding appends
PaddedCopies(f) == ListCopies(f.heap, SubSeq(PadCentroids(f.km.centroids, f.km.k, 1), Len(f.km.centroids) + 1, Max(f.km.k, Len(f.km.centroids))))

\* while len(self.centroids) < self.k: self.centroids.append(points[0][:])
LloydPad ==
    /\ fits.pc = "sampled"
    /\ fits' = [fits EXCEPT !.pc = "loop", !.heap = PaddedCopies(fits).heap,
                            !.km.centroids = fits.km.centroids \o PaddedCopies(fits).ids]
    /\ UNCHANGED <<rng, kmLast>>
    /\ LloydUnchanged

\* the loop has not ended: range(max_iter) is not exhausted and no break
LloydLooping ==
    /\ fits.pc = "loop"
    /\ fits.it < fits.km.max_iter
    /\ IF fits.it = 0 THEN TRUE
       ELSE ~ShiftBelowThreshold(fits.prev, Deref(fits.heap, fits.km.centroids))

\* what one iteration computes from the points and the centroids' vectors
LloydUpdate(f, s) == Recompute(Deref(f.heap, InputIds(f.data)), Assignment(Deref(f.heap, InputIds(f.data)), Deref(f.heap, f.km.centroids)), f.km.k, 0, s, <<>>)

\* one iteration of the loop: assign, recompute, measure the shift, store
LloydIterate ==
    /\ LloydLooping
    /\ rng' = LloydUpdate(fits, rng).rng
    /\ fits' = IF LloydUpdate(fits, rng).raised
               THEN [fits EXCEPT !.pc = "raised"]
               ELSE [fits EXCEPT !.heap = NewLists(fits.heap, LloydUpdate(fits, rng).centroids).heap,
                                 !.km.centroids = NewLists(fits.heap, LloydUpdate(fits, rng).centroids).ids,
                                 !.it = fits.it + 1,
                                 !.prev = Deref(fits.heap, fits.km.centroids),
                                 !.idx = Assignment(Deref(fits.heap, InputIds(fits.data)), Deref(fits.heap, fits.km.centroids)),
                                 !.rng0 = rng]
    /\ UNCHANGED kmLast
    /\ LloydUnchanged

\* self._fitted = True
LloydFinish ==
    /\ fits.pc = "loop"
    /\ ~LloydLooping
    /\ fits' = [fits EXCEPT !.pc = "done", !.km.fitted = TRUE]
    /\ UNCHANGED <<rng, kmLast>>
    /\ LloydUnchanged

\* clusterer.predict(features) once fit has returned
LloydPredict ==
    /\ fits.pc = "done"
    /\ kmLast = <<>>
    /\ \E features \in LloydFeatures :
         kmLast' = << [ features |-> features,
                        ret |-> kmeans_predict([fits.km EXCEPT !.centroids = Deref(fits.heap, fits.km.centroids)], features) ] >>
    /\ UNCHANGED <<rng, fits>>
    /\ LloydUnchanged

NextLloyd ==
    \/ LloydSeed
    \/ LloydSample
    \/ LloydPad
    \/ LloydIterate
    \/ LloydFinish
    \/ LloydPredict

SpecLloyd == InitLloyd /\ [][NextLloyd]_vars

(***************************************************************************)
(* Claims about the classifier (checked under SpecClassify).               *)
(***************************************************************************)
ClsDone == clsOut # NotCalled

ClsValues == <<clsIn.logic, clsIn.programming, clsIn.networking, clsIn.design>>

ClsAllEqual == \A i \in 1..4 : ClsValues[i] = ClsValues[1]

\* The label the code gives each bucket, in declaration order
\* IS(logic), CS(programming), IT(networking), BTVTED(design)
BucketProgram == <<"IS", "CS", "IT", "BTVTED (ICT)">>

\* The first bucket, in declaration order, that holds the maximum
FirstMaxBucket ==
    CHOOSE i \in 1..4 :
        /\ \A j \in 1..4 : ClsValues[j] <= ClsValues[i]
        /\ \A j \in 1..(i - 1) : ClsValues[j] < ClsValues[i]

CoursePrograms == {"CS", "IT", "IS", "BTVTED"}

\* C4: the program label the classifier returns is one of the four program tags
\* a course can carry.
C4_ProgramIsCourseTag ==
    ClsDone => clsOut[1].program \in CoursePrograms

CbfDone == cbfOut # NotCalled

\* C6: with a program filter P, recommend never returns an entry whose
\* reported program differs from P, for every corpus (also one in which two
\* courses share an id but carry different program tags) and every query.
C6_FilterRespected ==
    (CbfDone /\ cbfIn.program_filter # "") =>
        \A k \in 1..Len(cbfOut[1]) : cbfOut[1][k].program = cbfIn.program_filter

\* the positions of the corpus whose course is a candidate: it passes the
\* filter and the fitted model holds a non-empty vector for its id
CbfCandidates ==
    {i \in 1..Len(cbfIn.courses) :
        /\ cbfIn.program_filter = "" \/ cbfIn.courses[i].program = cbfIn.program_filter
        /\ cbfIn.courses[i].id \in DOMAIN cbf.course_vecs
        /\ DOMAIN cbf.course_vecs[cbfIn.courses[i].id] # {}}

CbfScoreOf(i) ==
    cosine_sim_sparse(VectorizeQuery(cbf, cbfIn.student_text),
                      cbf.course_vecs[cbfIn.courses[i].id])

\* candidate i ranks before candidate j: a higher score, or the same score
\* and an earlier place in the corpus
CbfRanksBefore(i, j) ==
    \/ RLt(CbfScoreOf(j), CbfScoreOf(i))
    \/ CbfScoreOf(i) = CbfScoreOf(j) /\ i < j

\* C7: the entries are in non-increasing score order, candidates of equal score
\* in corpus order, and the result is exactly the first top_n entries of that
\* ordering: min(top_n, number of candidates) entries for top_n >= 0.
C7_RankedStableTruncated ==
    CbfDone =>
        LET out == cbfOut[1]
            chosen == {out[k].pos : k \in 1..Len(out)}
        IN  /\ \A k \in 1..Len(out) :
                  /\ out[k].pos \in CbfCandidates
                  /\ out[k].raw = CbfScoreOf(out[k].pos)
            /\ \A k \in 1..(Len(out) - 1) :
                  /\ out[k + 1].score <= out[k].score
                  /\ CbfRanksBefore(out[k].pos, out[k + 1].pos)
            /\ \A i \in CbfCandidates \ chosen :
                  \A k \in 1..Len(out) : CbfRanksBefore(out[k].pos, i)
            /\ Len(out) = Min(cbfIn.top_n, Cardinality(CbfCandidates))

\* three candidates, the first of the corpus scoring lowest, the other two tied
\* with a positive score: the result holds the tied two, in corpus order
C7_Witness ==
    /\ CbfDone
    /\ Cardinality(CbfCandidates) = 3
    /\ Len(cbfOut[1]) = 2
    /\ cbfOut[1][1].pos = 2 /\ cbfOut[1][2].pos = 3
    /\ cbfOut[1][1].raw = cbfOut[1][2].raw
    /\ cbfOut[1][1].score > 0

(***************************************************************************)
(* Claims about the orchestrator (checked under SpecOrch).                 *)
(***************************************************************************)
\* both calls have returned a result
OrchBothReturned ==
    /\ Len(orchOut) = 2
    /\ ~orchOut[1].raised
    /\ ~orchOut[2].raised

\* logic, programming, networking and design are all equal
OrchStrengthsAllEqual ==
    /\ orchIn.logic = orchIn.programming
    /\ orchIn.programming = orchIn.networking
    /\ orchIn.networking = orchIn.design

\* C3: two calls that differ only in historical_students agree on confidence
\* and on the score and percentage of the message, and, when the four
\* strengths are not all equal, on recommended_program, message and
\* course_recommendations as well: the cluster only breaks the all-equal tie.
C3_ClusterOnlyBreaksTies ==
    OrchBothReturned =>
        LET a == orchOut[1]
            b == orchOut[2]
        IN  /\ a.confidence = b.confidence
            /\ a.message.score = b.message.score
            /\ a.message.total = b.message.total
            /\ a.message.pct1 = b.message.pct1
            /\ ~OrchStrengthsAllEqual =>
                  /\ a.recommended_program = b.recommended_program
                  /\ a.message = b.message
                  /\ a.course_recommendations = b.course_recommendations

\* two populations that put the student in different clusters, a shared
\* maximum among the strengths, and a course recommended both times
C3_Witness ==
    /\ OrchBothReturned
    /\ ~OrchStrengthsAllEqual
    /\ orchIn.programming = orchIn.networking
    /\ orchIn.programming > orchIn.logic
    /\ orchOut[1].cluster_id % 4 # orchOut[2].cluster_id % 4
    /\ orchOut[1].course_recommendations # <<>>
    /\ orchOut[1].course_recommendations = orchOut[2].course_recommendations

\* the last call made, its arguments and its outcome
OrchLast == Len(orchOut)

OrchReturned == OrchLast >= 1 /\ ~orchOut[OrchLast].raised

\* entry e reports course c
ReportsCourse(e, c) ==
    /\ e.course_id = c.id
    /\ e.code = c.code
    /\ e.title = c.title
    /\ e.program = c.program

\* C8: with a non-empty corpus every entry of course_recommendations is a
\* course of the corpus tagged with the returned recommended_program, there
\* are at most top_n_courses entries, ranked by similarity; with courses
\* tagged CS, IT and IS, no population and the program CS, cluster_id is 0
\* and the first entry is the CS course.
C8_CoursesOfRecommendedProgram ==
    (OrchReturned /\ orchIn.courses # <<>>) =>
        LET a == OrchArgs(OrchLast)
            out == orchOut[OrchLast]
            recs == out.course_recommendations
        IN  /\ \A k \in 1..Len(recs) :
                  \E n \in 1..Len(a.courses) :
                      /\ ReportsCourse(recs[k], a.courses[n])
                      /\ a.courses[n].program = out.recommended_program
            /\ Len(recs) <= Max(0, a.top_n_courses)
            /\ \A k \in 1..(Len(recs) - 1) : RLe(recs[k + 1].raw, recs[k].raw)
            /\ ( /\ {a.courses[n].program : n \in 1..Len(a.courses)} = {"CS", "IT", "IS"}
                 /\ a.historical_students = <<>>
                 /\ out.recommended_program = "CS"
                 /\ a.top_n_courses >= 1 )
               => /\ out.cluster_id = 0
                  /\ Len(recs) >= 1
                  /\ recs[1].program = "CS"

\* the feature vector of the calls
OrchFeatureVec ==
    build_student_feature_vector(orchIn.score, orchIn.total, orchIn.logic,
        orchIn.programming, orchIn.networking, orchIn.design,
        orchIn.interests, orchIn.behavior_score)

\* index (0-based) is the first of the centroids nearest to p
FirstNearest(centroids, p, index) ==
    /\ index \in 0..(Len(centroids) - 1)
    /\ \A j \in 1..Len(centroids) :
          LET dj == l2_distance_sq(p, centroids[j])
              di == l2_distance_sq(p, centroids[index + 1])
          IN  IF j < index + 1 THEN RLt(di, dj) ELSE RLe(di, dj)

\* C9: without a historical population cluster_id is 0 and no clusterer is
\* made; with one, the clusterer is a new one of k = 4 fitted on that
\* population, and cluster_id, in 0..3, is its prediction for the student's
\* feature vector: the first of its four centroids nearest to the vector.
C9_ClusterIdIsFreshPrediction ==
    OrchReturned =>
        LET hist == orchIn.hist[OrchLast]
            out == orchOut[OrchLast]
        IN  IF hist = <<>>
            THEN out.cluster_id = 0 /\ out.km = <<>>
            ELSE /\ out.km = <<kmeans_fit(NewKMeans(4, 50, 42), hist, 0).km>>
                 /\ out.km[1].fitted
                 /\ Len(out.km[1].centroids) = 4
                 /\ out.cluster_id \in 0..3
                 /\ FirstNearest(out.km[1].centroids, OrchFeatureVec, out.cluster_id)

\* a population of four puts the student in a cluster that is neither 0 nor
\* the cluster of the population's first student
C9_Witness ==
    /\ OrchReturned
    /\ Len(orchIn.hist[OrchLast]) = 4
    /\ orchOut[OrchLast].cluster_id # 0
    /\ orchOut[OrchLast].cluster_id #
           kmeans_predict(orchOut[OrchLast].km[1], orchIn.hist[OrchLast][1].features)

\* the stored vectors of the population all have the seven features
HistWellFormed(hist) == \A n \in 1..Len(hist) : Len(hist[n].features) = 7

\* C10: degenerate inputs (total <= 0, no population, no courses, empty text
\* fields, no course of the chosen program, in any combination) raise nothing
\* and give a complete result with the defaults: total counted as 1,
\* cluster_id 0 without a population, no course recommendations without a
\* candidate course.
C10_DegenerateInputsGiveDefaults ==
    (OrchLast >= 1 /\ HistWellFormed(orchIn.hist[OrchLast])) =>
        LET a == OrchArgs(OrchLast)
            out == orchOut[OrchLast]
        IN  /\ ~out.raised
            /\ { "user_id", "cluster_id", "recommended_program", "confidence",
                 "message", "course_recommendations" } \subseteq DOMAIN out
            /\ out.user_id = a.user_id
            /\ a.total <= 0 =>
                  /\ out.message.pct1 = FormatF1(RInt(a.score * 100))
                  /\ out.confidence = Confidence(RInt(a.score * 100))
            /\ a.historical_students = <<>> => out.cluster_id = 0
            /\ (\A n \in 1..Len(a.courses) :
                    a.courses[n].program # out.recommended_program)
               => out.course_recommendations = <<>>

\* everything degenerate at once: total 0, no population, no courses, empty
\* texts, no strengths
C10_Witness ==
    /\ OrchLast >= 1
    /\ orchIn.total = 0
    /\ orchIn.hist[OrchLast] = <<>>
    /\ orchIn.courses = <<>>
    /\ orchIn.interests = <<>> /\ orchIn.career_goals = <<>> /\ orchIn.year_level = <<>>
    /\ orchIn.logic = 0 /\ OrchStrengthsAllEqual
    /\ ~orchOut[OrchLast].raised
    /\ orchOut[OrchLast].cluster_id = 0
    /\ orchOut[OrchLast].course_recommendations = <<>>

(***************************************************************************)
(* Claims about the clusterer, one call at a time (checked under SpecKM).  *)
(***************************************************************************)
KMFitted == kmLast # <<>> /\ kmLast[1].op = "fit"

KMPredicted == kmLast # <<>> /\ kmLast[1].op = "predict"

\* C11: fit and predict on feature vectors of non-uniform length complete
\* without raising.
C11_NonUniformNeverRaises ==
    kmLast # <<>> => ~kmLast[1].raised

\* what fit(data) leaves on a new instance of the same k, max_iter and seed
FreshFit(km, data) == kmeans_fit(NewKMeans(km.k, km.max_iter, km.seed), data, 0).km

\* C12: fit(D) after any earlier sequence of fits and predicts leaves the
\* object in the state fit(D) leaves a new instance of the same seed, k and
\* max_iter in: the same centroids, and the same prediction for every vector.
C12_FitIsFullRecomputation ==
    KMFitted =>
        LET fresh == FreshFit(clusterer[1], kmLast[1].data)
        IN  /\ clusterer[1].centroids = fresh.centroids
            /\ clusterer[1] = fresh
            /\ \A f \in KMFeatures :
                   kmeans_predict(clusterer[1], f) = kmeans_predict(fresh, f)

\* C15: fit([]) raises nothing, clears the centroids and marks the object
\* unfitted, also after a fit that succeeded; predict on an object that is
\* unfitted or has no centroids returns 0 and raises nothing; so predict
\* returns 0 whenever the last fit was fit([]).
C15_EmptyFitClearsPredictZero ==
    /\ (KMFitted /\ kmLast[1].data = <<>>) =>
           /\ ~kmLast[1].raised
           /\ clusterer[1].centroids = <<>>
           /\ ~clusterer[1].fitted
    /\ KMPredicted =>
           /\ ~kmLast[1].raised
           /\ (~kmLast[1].before.fitted \/ kmLast[1].before.centroids = <<>>)
                  => kmLast[1].ret = 0
           /\ KMLastFitEmpty => kmLast[1].ret = 0

\* predict returns 0 after a fit that succeeded was followed by fit([])
C15_Witness ==
    /\ KMPredicted
    /\ KMLastFitEmpty
    /\ kmLast[1].succeeded
    /\ kmLast[1].features # <<>>
    /\ kmLast[1].ret = 0
    /\ clusterer[1].centroids = <<>>

\* every vector of the data set has the length of the first
UniformData(data) == \A n \in 1..Len(data) : Len(data[n].features) = Len(data[1].features)

\* c is the coordinate-wise arithmetic mean of the points: n * c[j] is the sum
\* of the j-th coordinates
IsMeanOf(c, points) ==
    /\ Len(c) = Len(points[1])
    /\ \A j \in 1..Len(c) :
           RMul(c[j], RInt(Len(points))) = ColumnSum(points, j, 1, RInt(0))

\* a fit with k = 1 on non-empty data of uniform dimension has returned
KMFittedOne ==
    /\ KMFitted
    /\ clusterer[1].k = 1
    /\ kmLast[1].data # <<>>
    /\ UniformData(kmLast[1].data)

\* C17 (as stated): fit with k = 1 on non-empty uniform data ends with the
\* single centroid equal to the mean of all points, and with max_iter >= 2
\* stops by the second iteration.
C17_SingleCentroidIsMean ==
    KMFittedOne =>
        /\ ~kmLast[1].raised
        /\ Len(clusterer[1].centroids) = 1
        /\ IsMeanOf(clusterer[1].centroids[1], PointsOf(kmLast[1].data))
        /\ clusterer[1].max_iter >= 2 => kmLast[1].iterations <= 2

\* C17 (amended): the same for max_iter >= 1; with max_iter = 0 no iteration
\* runs and the centroid is the sampled point.
C17_SingleCentroidIsMeanAfterOneIteration ==
    (KMFittedOne /\ clusterer[1].max_iter >= 1) =>
        /\ ~kmLast[1].raised
        /\ clusterer[1].fitted
        /\ Len(clusterer[1].centroids) = 1
        /\ IsMeanOf(clusterer[1].centroids[1], PointsOf(kmLast[1].data))
        /\ clusterer[1].max_iter >= 2 => kmLast[1].iterations <= 2

\* five points, max_iter = 3: the mean, which is none of the points, is
\* reached and the loop stops after the second of three iterations
C17_Witness ==
    /\ KMFittedOne
    /\ clusterer[1].max_iter = MaxIter
    /\ Len(kmLast[1].data) = 5
    /\ kmLast[1].iterations = 2
    /\ IsMeanOf(clusterer[1].centroids[1], PointsOf(kmLast[1].data))
    /\ \A n \in 1..5 : kmLast[1].data[n].features # clusterer[1].centroids[1]

(***************************************************************************)
(* Claims about fit, step by step (checked under SpecFit).                 *)
(***************************************************************************)
FitEnded(t) == fits[t].pc \in {"done", "raised"}

\* C13: interleaved with another fit or with other code that draws from or
\* reseeds the generator, a fit produces the centroids it produces alone, and
\* once the fits have ended the generator is in the state it would be in had
\* no fit run.
C13_FitOwnsItsStream ==
    /\ \A t \in Threads :
           fits[t].pc = "done" =>
               fits[t].km.centroids = fits[t].alone[1].centroids
    /\ (\A t \in Threads : fits[t].pc = "idle" \/ FitEnded(t)) =>
           rng = others.rng

\* C14: from the end of the initialisation on (sample and padding), after
\* every update step and after the fit, the clusterer holds exactly k
\* centroids.
C14_ExactlyKCentroids ==
    \A t \in Threads :
        fits[t].pc \in {"loop", "done", "raised"} =>
            Len(fits[t].km.centroids) = fits[t].km.k

\* fewer points than k: the sample was padded, the padded centroid received
\* no point and was reseeded in an update step
C14_Witness ==
    \E t \in Threads :
        /\ fits[t].pc = "done"
        /\ Len(fits[t].data) < fits[t].km.k
        /\ fits[t].it >= 1
        /\ Len(fits[t].km.centroids) = fits[t].km.k

\* C16: fit on non-empty data runs at most max_iter iterations, runs none
\* after an iteration whose shift is below the threshold, and ends marked
\* fitted, having either exhausted max_iter or met the threshold.
C16_FitEndsFittedWithinMaxIter ==
    \A t \in Threads :
        /\ fits[t].it <= fits[t].km.max_iter
        /\ Len(fits[t].shifts) = fits[t].it
        /\ \A n \in 1..(fits[t].it - 1) : ~fits[t].shifts[n]
        /\ fits[t].pc # "raised"
        /\ fits[t].pc = "done" =>
               /\ fits[t].km.fitted
               /\ IF fits[t].it = fits[t].km.max_iter THEN TRUE
                  ELSE fits[t].shifts[fits[t].it]

(***************************************************************************)
(* Claims about the recommender on an empty corpus (checked under SpecCBF). *)
(***************************************************************************)
\* the recommender was last fitted on the (empty) corpus of the call, by fit
\* or by recommend
CbfFittedOnEmpty ==
    /\ cbfIn.courses = <<>>
    /\ cbf.fitted
    /\ cbf # CBFFitted(OtherCorpus)

\* C18: fit([]) leaves an empty idf table and no course vectors, and
\* recommend(query, [], top_n, filter) returns [] for every query, top_n and
\* filter, whether or not fit was called before, on this or another corpus.
C18_EmptyCorpusGivesNothing ==
    /\ CbfFittedOnEmpty =>
           /\ DOMAIN cbf.idf = {}
           /\ DOMAIN cbf.course_vecs = {}
    /\ (CbfDone /\ cbfIn.courses = <<>>) => cbfOut = Returned(<<>>)

\* recommend on the empty corpus returned [] with a filter and top_n > 0,
\* having fitted the recommender on the empty corpus
C18_Witness ==
    /\ CbfDone
    /\ CbfFittedOnEmpty
    /\ cbfIn.top_n > 0
    /\ cbfIn.program_filter # ""
    /\ cbfOut = Returned(<<>>)
    /\ DOMAIN cbf.idf = {}

(***************************************************************************)
(* Claims about the feature vector and the query text (checked under       *)
(* SpecGlue).                                                              *)
(***************************************************************************)
\* build_student_feature_vector was called and has ended
VectorCallEnded == glueOut.raised \/ glueOut.vector # NotCalled

\* the divisor the claim names: max(1, total)
ClaimedDivisor == IF glueIn.total >= 1 THEN glueIn.total ELSE 1

\* the rational r is value / max(1, total) * 100
IsPercentageOf(r, value) == r[2] > 0 /\ r[1] * ClaimedDivisor = value * 100 * r[2]

\* C19: build_student_feature_vector never raises and returns exactly seven
\* entries: the percentages value / max(1, total) * 100 of score, logic,
\* programming, networking and design in this order, then the number of
\* tokens of the interests text, then behavior_score as given; a score of 50
\* out of 100 gives a first entry of 50
C19_FeatureVectorLayout ==
    VectorCallEnded =>
        /\ ~glueOut.raised
        /\ Len(glueOut.vector[1]) = 7
        /\ IsPercentageOf(glueOut.vector[1][1], glueIn.score)
        /\ IsPercentageOf(glueOut.vector[1][2], StrengthGet(glueIn.strengths, "logic"))
        /\ IsPercentageOf(glueOut.vector[1][3], StrengthGet(glueIn.strengths, "programming"))
        /\ IsPercentageOf(glueOut.vector[1][4], StrengthGet(glueIn.strengths, "networking"))
        /\ IsPercentageOf(glueOut.vector[1][5], StrengthGet(glueIn.strengths, "design"))
        /\ glueOut.vector[1][6] = RInt(Len(glueIn.interests))
        /\ glueOut.vector[1][7] = glueIn.behavior_score
        /\ (glueIn.score = 50 /\ glueIn.total = 100 => glueOut.vector[1][1] = RInt(50))

\* a returned vector of a total that had to be floored, with four different
\* strengths, a non-empty interests text and a behaviour score that is not 0
C19_Witness ==
    /\ glueOut # <<>>
    /\ glueOut.vector # NotCalled
    /\ glueIn.total <= 0
    /\ DOMAIN glueIn.strengths = Categories
    /\ glueIn.strengths["logic"] = MaxStrength + 1
    /\ glueIn.strengths["programming"] = 1
    /\ glueIn.strengths["networking"] = 0
    /\ glueIn.strengths["design"] = -1
    /\ glueIn.interests # <<>>
    /\ glueIn.behavior_score = Rat(1, 2)

\* build_student_query_text has returned
QueryTextReturned == glueOut.text # NotCalled

\* the words of a text
WordsOf(text) == {text[i] : i \in 1 .. Len(text)}

\* the fixed keyword set of a category
CategoryKeywords(c) ==
    CASE c = "programming" -> {"programming", "software", "coding", "algorithms"}
      [] c = "networking" -> {"networking", "systems", "infrastructure", "security"}
      [] c = "logic" -> {"analysis", "systems", "requirements", "database"}
      [] c = "design" -> {"design", "multimedia", "instructional", "teaching"}

\* the categories of strictly positive strength
PositiveCategories == {c \in Categories : StrengthGet(glueIn.strengths, c) > 0}

\* the student's own texts, in the order they are included
OwnTexts == glueIn.interests \o glueIn.career_goals \o glueIn.year_level

\* what the text holds after the student's own texts
Contributed == SubSeq(glueOut.text[1], Len(OwnTexts) + 1, Len(glueOut.text[1]))

\* the strengths with every positive value replaced by 1 and every other key
\* left out
SignsOf(strengths) == [c \in PositiveCategories |-> 1]

\* the text starts with the interests, career goals and year level, and it
\* is the text of the strengths reduced to their signs
OwnTextsIncludedAndMagnitudeIgnored ==
    /\ Len(glueOut.text[1]) >= Len(OwnTexts)
    /\ SubSeq(glueOut.text[1], 1, Len(OwnTexts)) = OwnTexts
    /\ glueOut.text[1] = build_student_query_text(glueIn.interests, glueIn.career_goals, glueIn.year_level, SignsOf(glueIn.strengths))

\* C20 (as stated): a category's keyword set is present in the produced text
\* if and only if its strength is strictly positive, the keywords do not
\* depend on the magnitude, and the three texts are always included
C20_KeywordsPresentIffPositive ==
    QueryTextReturned =>
        /\ \A c \in Categories :
             (CategoryKeywords(c) \subseteq WordsOf(glueOut.text[1])) <=> (c \in PositiveCategories)
        /\ OwnTextsIncludedAndMagnitudeIgnored

\* C20 (amended): what follows the interests, career goals and year level in
\* the text holds a category's keyword set if and only if its strength is
\* strictly positive, and holds no other word; the keywords do not depend on
\* the magnitude, and the three texts are always included
C20_KeywordsAppendedIffPositive ==
    QueryTextReturned =>
        /\ \A c \in Categories :
             (CategoryKeywords(c) \subseteq WordsOf(Contributed)) <=> (c \in PositiveCategories)
        /\ WordsOf(Contributed) = UNION {CategoryKeywords(c) : c \in PositiveCategories}
        /\ OwnTextsIncludedAndMagnitudeIgnored

\* a returned text of strengths that are positive of magnitude above 1,
\* zero, negative and missing, with interests that spell the networking
\* keywords
C20_Witness ==
    /\ glueOut # <<>>
    /\ glueOut.text # NotCalled
    /\ DOMAIN glueIn.strengths = {"programming", "networking", "design"}
    /\ glueIn.strengths["programming"] = MaxStrength + 1
    /\ glueIn.strengths["networking"] = 0
    /\ glueIn.strengths["design"] = -1
    /\ CategoryKeywords("networking") \subseteq WordsOf(glueIn.interests)

(***************************************************************************)
(* Claims about the cosine similarity (checked under SpecCosine).          *)
(***************************************************************************)
\* the exact norm of a sparse vector is zero
ZeroNorm(v) == \A i \in 1 .. Len(v) : v[i][2] = RInt(0)

CosineCalled == cosOut # <<>>

\* sim(a, b) = sim(b, a)
CosineSymmetric == CosineCalled => cosOut.ab = cosOut.ba

\* sim(a, a) = 1 when a has a non-zero norm
CosineSelfIsOne == CosineCalled /\ ~ZeroNorm(cosIn.a) => cosOut.aa = RInt(1)

\* sim is exactly 0 when an argument is empty or has zero norm
CosineZeroOnDegenerate ==
    CosineCalled /\ (ZeroNorm(cosIn.a) \/ ZeroNorm(cosIn.b)) => cosOut.ab = RInt(0) /\ cosOut.ba = RInt(0)

\* C21: cosine_sim_sparse is symmetric, returns 1 on (a, a) for every a of
\* non-zero norm, and returns exactly 0 when either argument is empty or has
\* zero norm
C21_CosineSymmetricOneOnSelfZeroOnEmpty ==
    CosineSymmetric /\ CosineSelfIsOne /\ CosineZeroOnDegenerate

(***************************************************************************)
(* Claims about fitting and refitting (checked under SpecRefit).           *)
(***************************************************************************)
\* the corpus the last fit ran on
FittedCorpus == cbfOut.fitted_on[1]

\* the tokens of document i of the fitted corpus
DocTokens(i) == tokenize(as_text(FittedCorpus[i]))

\* the tokens occurring in at least one document of the fitted corpus
FittedVocabulary == UNION { {DocTokens(i)[j] : j \in 1 .. Len(DocTokens(i))} : i \in 1 .. Len(FittedCorpus) }

\* the number of documents of the fitted corpus in which t occurs
DocumentsHolding(t) == Cardinality({i \in 1 .. Len(FittedCorpus) : \E j \in 1 .. Len(DocTokens(i)) : DocTokens(i)[j] = t})

\* C22: after a fit on N documents the idf table has exactly the tokens of
\* the corpus; each has 1 <= df <= N for the number df of documents holding
\* it (a token repeated in a document counts once) and the weight
\* ln((N + 1) / (df + 1)) + 1 > 0, here in tenths; df(t1) <= df(t2) implies
\* idf(t1) >= idf(t2)
C22_IdfOfDocumentFrequency ==
    cbf.fitted =>
        /\ DOMAIN cbf.idf = FittedVocabulary
        /\ \A t \in FittedVocabulary :
             /\ 1 <= DocumentsHolding(t)
             /\ DocumentsHolding(t) <= Len(FittedCorpus)
             /\ cbf.idf[t] = LnDeci(Len(FittedCorpus) + 1) - LnDeci(DocumentsHolding(t) + 1) + 10
             /\ cbf.idf[t] > 0
        /\ \A t1, t2 \in FittedVocabulary :
             DocumentsHolding(t1) <= DocumentsHolding(t2) => cbf.idf[t1] >= cbf.idf[t2]

\* a fit on three documents: a token held by two of them, a token held by
\* one, and a token that occurs twice in its document
C22_Witness ==
    /\ cbf.fitted
    /\ Len(FittedCorpus) = 3
    /\ \E t1, t2 \in FittedVocabulary : DocumentsHolding(t1) = 2 /\ DocumentsHolding(t2) = 1
    /\ \E i \in 1 .. 3 : \E j, l \in 1 .. Len(DocTokens(i)) : j < l /\ DocTokens(i)[j] = DocTokens(i)[l]

\* the ids of the courses of a corpus
CourseIds(courses) == {courses[i].id : i \in 1 .. Len(courses)}

\* the tokens of a corpus
CorpusVocabulary(courses) == UNION {TokenSet(tokenize(as_text(courses[i]))) : i \in 1 .. Len(courses)}

\* the model holds values of this corpus only
HoldsOnly(model, courses) ==
    /\ model.fitted
    /\ DOMAIN model.idf = CorpusVocabulary(courses)
    /\ DOMAIN model.course_vecs = CourseIds(courses)
    /\ model = CBFFitted(courses)

\* C27: recommend fits on its corpus exactly when the model is not yet
\* fitted; on a fitted model it leaves the idf table and the course vectors
\* as they were, whatever its corpus; an explicit fit replaces both by the
\* values of its corpus alone
C27_OnlyFitReplacesTheModel ==
    /\ (cbfOut.op = "recommend" /\ ~cbfOut.before.fitted => HoldsOnly(cbf, cbfOut.corpus))
    /\ (cbfOut.op = "recommend" /\ cbfOut.before.fitted => cbf = cbfOut.before)
    /\ (cbfOut.op = "fit" => HoldsOnly(cbf, cbfOut.corpus))

\* a recommend on a model fitted on another corpus, whose tokens and ids
\* differ, has left the model alone
C27_Witness ==
    /\ cbfOut # NotCalled
    /\ cbfOut.op = "recommend"
    /\ cbfOut.before.fitted
    /\ cbfOut.calls = MaxCalls
    /\ FittedCorpus # cbfOut.corpus
    /\ CorpusVocabulary(FittedCorpus) # CorpusVocabulary(cbfOut.corpus)
    /\ CourseIds(FittedCorpus) # CourseIds(cbfOut.corpus)

(***************************************************************************)
(* Claims about the steps of k-means (checked under SpecLloyd).            *)
(***************************************************************************)
\* the vectors of the input lists and of the centroids, as the heap has them
LloydPoints == Deref(fits.heap, InputIds(fits.data))

LloydCentroids == Deref(fits.heap, fits.km.centroids)

\* an update has completed: prev, idx and rng0 are those of the last one
LloydUpdated == fits.it >= 1

\* i (0-based) is the lowest index among the centroids nearest to p
LowestNearest(centroids, p, i) ==
    /\ i + 1 \in 1 .. Len(centroids)
    /\ \A j \in 1 .. Len(centroids) :
         /\ RLe(l2_distance_sq(p, centroids[i + 1]), l2_distance_sq(p, centroids[j]))
         /\ j < i + 1 => RLt(l2_distance_sq(p, centroids[i + 1]), l2_distance_sq(p, centroids[j]))

\* i (0-based) is a centroid equal to one of lower index
DuplicateOfLower(centroids, i) == \E j \in 1 .. i : centroids[j] = centroids[i + 1]

\* C24: the index predict returns and the index the assignment step gives
\* every point is the lowest among the indices of the centroids at minimal
\* Euclidean distance, so a centroid that duplicates one of lower index is
\* never returned and receives no point
C24_LowestNearestCentroid ==
    /\ kmLast # <<>> =>
         /\ LowestNearest(LloydCentroids, kmLast[1].features, kmLast[1].ret)
         /\ ~DuplicateOfLower(LloydCentroids, kmLast[1].ret)
    /\ LloydUpdated =>
         \A n \in 1 .. Len(fits.idx) :
             /\ LowestNearest(fits.prev, LloydPoints[n], fits.idx[n])
             /\ ~DuplicateOfLower(fits.prev, fits.idx[n])

\* fewer points than k: the assignment ran on padded duplicates, and predict
\* was then asked about a vector as near to the second centroid as to the
\* first
C24_Witness ==
    /\ kmLast # <<>>
    /\ fits.it >= 1
    /\ Len(fits.data) < fits.km.k
    /\ DuplicateOfLower(fits.prev, 1)
    /\ kmLast[1].ret = 0
    /\ l2_distance_sq(kmLast[1].features, LloydCentroids[1]) = l2_distance_sq(kmLast[1].features, LloydCentroids[2])

\* the points the last assignment gave cluster i (0-based), in data order
AssignedTo(i) == ClusterOf(LloydPoints, fits.idx, i, 1)

\* the clusters that received no point, and how many of them are below i
EmptyClusters == {i \in 0 .. (fits.km.k - 1) : AssignedTo(i) = <<>>}

EmptyBelow(i) == Cardinality({e \in EmptyClusters : e < i})

\* the generator's state after n draws from state s
RECURSIVE RngAfter(_, _)
RngAfter(s, n) == IF n = 0 THEN s ELSE RngAfter(RngNext(s), n - 1)

\* the point the m-th draw (m >= 0) of the update takes: the stream goes on
\* from the state the update found
DrawnPoint(m) == LloydPoints[RandBelow(RngAfter(fits.rng0, m), Len(LloydPoints))[1] + 1]

\* C25: after every update, centroid i is the coordinate-wise mean of the
\* points the iteration assigned to cluster i, or, when the cluster got no
\* point, the data point taken by the next draw of the stream, which goes on
\* from where the update found it and is advanced by one draw per empty
\* cluster
C25_UpdateIsMeanOrReseed ==
    LloydUpdated =>
        /\ Len(fits.km.centroids) = fits.km.k
        /\ \A i \in 0 .. (fits.km.k - 1) :
             IF i \in EmptyClusters
             THEN LloydCentroids[i + 1] = DrawnPoint(EmptyBelow(i))
             ELSE IsMeanOf(LloydCentroids[i + 1], AssignedTo(i))
        /\ fits.pc # "raised" => rng = RngAfter(fits.rng0, Cardinality(EmptyClusters))

\* an update in which one cluster got points and moved to their mean and
\* another got none and was given a data point that is not its old centroid
C25_Witness ==
    /\ fits.it >= 1
    /\ Len(fits.data) >= fits.km.k
    /\ \E i \in EmptyClusters : LloydCentroids[i + 1] # fits.prev[i + 1]
    /\ \E i \in (0 .. (fits.km.k - 1)) \ EmptyClusters : LloydCentroids[i + 1] # fits.prev[i + 1]

\* the injective maps of 1 .. m into the positions of the input list
DistinctPositions(m) == {f \in [1 .. m -> 1 .. Len(fits.data)] : \A a, b \in 1 .. m : a # b => f[a] # f[b]}

\* centroid i is a list of its own holding the vector of input position n
IsCopyOfInput(i, n) == fits.km.centroids[i] > Len(fits.data) /\ fits.heap[fits.km.centroids[i]] = fits.heap[n]

\* C26: when the initialisation has ended, the first min(k, |data|)
\* centroids are copies of data points at pairwise distinct positions of the
\* input list and every other one is a copy of the first data point; at
\* every step of fit the input lists hold the vectors they were given
C26_InitialCentroidsAreDistinctCopies ==
    /\ fits.pc = "loop" /\ fits.it = 0 =>
         /\ Len(fits.km.centroids) = fits.km.k
         /\ \E f \in DistinctPositions(Min(fits.km.k, Len(fits.data))) :
              \A i \in 1 .. Min(fits.km.k, Len(fits.data)) : IsCopyOfInput(i, f[i])
         /\ \A i \in (Min(fits.km.k, Len(fits.data)) + 1) .. fits.km.k : IsCopyOfInput(i, 1)
         /\ \A a, b \in 1 .. fits.km.k : a # b => fits.km.centroids[a] # fits.km.centroids[b]
    /\ \A n \in 1 .. Len(fits.data) : fits.heap[n] = fits.data[n].features

\* an initialisation that sampled k of more than k points, all of different
\* vectors
C26_Witness ==
    /\ fits.pc = "loop"
    /\ fits.it = 0
    /\ fits.km.k = MaxK
    /\ Len(fits.data) > fits.km.k
    /\ LloydCentroids[1] # LloydCentroids[2]


(***************************************************************************)
(* Specification SpecRecommend: the POST /recommend handler of the         *)
(* recommendation engine, served by one event loop.  A request gives up    *)
(* the loop only at its two awaits (the profile fetch and the courses      *)
(* fetch); from the feature vector to the return statement it runs without *)
(* interruption.  The store is the database: the student_feature_vector    *)
(* and the recommendation_result tables, rows in the order of their ids.   *)
(***************************************************************************)
MinPopulation == 10    \* len(historical_students) >= 10
RecentLimit == 500     \* load_recent_vectors(db, limit=500)
TopNCourses == 10      \* top_n_courses=10
MaxRequests == 3       \* at most MaxRequests requests arrive

\* the requests the event loop can hold at a time
Workers == {1, 2}

\* features_json: a JSON list of numbers (kind "list", the column default
\* "[]" being the empty one), a JSON value that is not a list ("object"),
\* or text that is not JSON ("garbage")
json_dumps(features) == [kind |-> "list", items |-> features]

\* a row of student_feature_vector
FeatureRow(p, features_json) ==
    [ user_id |-> p.user_id, attempt_id |-> p.attempt_id,
      features_json |-> features_json,
      score |-> p.score, total |-> p.total, logic |-> p.logic,
      programming |-> p.programming, networking |-> p.networking,
      design |-> p.design ]

\* save_student_vector: db.add(row); db.commit()
save_student_vector(st, p, features) ==
    [st EXCEPT !.vectors = Append(@, FeatureRow(p, json_dumps(features)))]

\* load_recent_vectors: order_by(id.desc()).limit(limit).all()
load_recent_vectors(st, limit) ==
    LET n == Len(st.vectors)
        m == Min(n, limit)
    IN  [j \in 1..m |-> st.vectors[n + 1 - j]]

\* json.loads(...) gives a non-empty list (of numbers)
ParsesToVector(row) ==
    row.features_json.kind = "list" /\ row.features_json.items # <<>>

\* the loop over rows: a StudentVector for every row whose features_json
\* parses to a non-empty list, in the order of rows
historical_students_of(rows) ==
    LET keep == SelectSeq(rows, ParsesToVector)
    IN  [j \in 1..Len(keep) |->
            [user_id |-> keep[j].user_id, features |-> keep[j].features_json.items]]

\* (mutant) any non-empty population is passed
HistoricalArgumentAny(historical_students) == historical_students

\* historical_students if len(historical_students) >= 10 else None
HistoricalArgument(historical_students) ==
    IF Len(historical_students) >= MinPopulation THEN historical_students ELSE <<>>

\* (mutant) the rows are loaded before the vector is saved.  [store, rows]
LoadedThenSaved(st, p, features) ==
    [ store |-> save_student_vector(st, p, features),
      rows |-> load_recent_vectors(st, RecentLimit) ]

\* steps 3 and 4: save_student_vector(...), then load_recent_vectors(db,
\* limit=500).  [store, rows]
SavedThenLoaded(st, p, features) ==
    LET saved == save_student_vector(st, p, features)
    IN  [store |-> saved, rows |-> load_recent_vectors(saved, RecentLimit)]

\* step 6: db.add(RecommendationResult(...)); db.commit()
StoreResult(st, p, result) ==
    [st EXCEPT !.results = Append(@,
        [ user_id |-> p.user_id, attempt_id |-> p.attempt_id,
          program |-> result.recommended_program,
          confidence |-> result.confidence,
          rationale |-> result.message ])]

\* the keyword arguments of step 5
CoreArgs(req, historical_students) ==
    [ user_id |-> req.payload.user_id, score |-> req.payload.score,
      total |-> req.payload.total, logic |-> req.payload.logic,
      programming |-> req.payload.programming,
      networking |-> req.payload.networking, design |-> req.payload.design,
      interests |-> req.interests, career_goals |-> req.career_goals,
      year_level |-> req.year_level, behavior_score |-> RInt(0),
      historical_students |-> HistoricalArgument(historical_students),
      courses |-> req.courses, top_n_courses |-> TopNCourses ]

\* step 6 and the return statement: what the request leaves and what it
\* did.  An exception of the core leaves the function before step 6.
RecommendOutcome(req, sl, feature_vec, passed, result) ==
    [ store |-> IF result.raised THEN sl.store
                ELSE StoreResult(sl.store, req.payload, result),
      rng |-> result.rng,
      feature_vec |-> feature_vec,
      newest |-> IF sl.rows = <<>> THEN <<>> ELSE <<sl.rows[1]>>,
      passed |-> passed,
      result |-> result ]

\* step 5: result = recommend_with_kmeans_and_cbf(**args)
RecommendWithArgs(req, sl, s, feature_vec, args) ==
    RecommendOutcome(req, sl, feature_vec, args.historical_students,
                     recommend_with_kmeans_and_cbf(args, s))

\* the parse loop of step 4 and steps 5 and 6, after the rows were loaded
RecommendFromRows(req, sl, s, feature_vec) ==
    RecommendWithArgs(req, sl, s, feature_vec,
                      CoreArgs(req, historical_students_of(sl.rows)))

\* step 3 onward, with the feature vector built
RecommendWithVector(st, s, req, feature_vec) ==
    RecommendFromRows(req, SavedThenLoaded(st, req.payload, feature_vec),
                      s, feature_vec)

\* steps 3 to 6 of recommend(payload, db) for a request whose fetches are
\* done, on the store st with the shared generator in state s
RecommendFromVector(st, s, req) ==
    RecommendWithVector(st, s, req,
        build_student_feature_vector(req.payload.score, req.payload.total,
            req.payload.logic, req.payload.programming,
            req.payload.networking, req.payload.design,
            req.interests, RInt(0)))

\* RecommendIn payloads (score >= 0, total > 0): two students
Payload(user_id, attempt_id) ==
    [ user_id |-> user_id, attempt_id |-> attempt_id, score |-> 3, total |-> 4,
      logic |-> 0, programming |-> IF user_id = 7 THEN 1 ELSE 0,
      networking |-> 0, design |-> IF user_id = 7 THEN 0 ELSE 1 ]

\* what the profile service answers for a user: student 7 has a profile,
\* student 8 has none (a status other than 200, or no answer at all)
ProfileAnswer(user_id) ==
    IF user_id = 7
    THEN [ok |-> TRUE, interests |-> <<"Coding">>, career_goals |-> <<"analyst">>,
          year_level |-> <<"2nd">>, skills |-> <<"security">>]
    ELSE [ok |-> FALSE, interests |-> <<>>, career_goals |-> <<>>,
          year_level |-> <<>>, skills |-> <<>>]

\* what the course service answers: no courses, or a catalogue
Catalogues ==
    { <<>>,
      << Course(1, <<"CS101">>, <<"Programming">>, "CS", <<"coding", "algorithms">>),
         Course(2, <<"IT201">>, <<"Networking">>, "IT", <<"security", "networking">>),
         Course(6, <<"ED401">>, <<"Design">>, "BTVTED", <<"multimedia", "teaching">>) >> }

\* the request of student 7 whose profile has no text, with no courses
PlainRequest(attempt_id) ==
    [ pc |-> "ready", payload |-> Payload(7, attempt_id), interests |-> <<>>,
      career_goals |-> <<>>, year_level |-> <<>>, courses |-> <<>> ]

\* the database after the first request of student 7 was served from an
\* empty database
FirstServed ==
    RecommendFromVector([vectors |-> <<>>, results |-> <<>>], 0,
                        PlainRequest(1)).store

\* The database after n requests of student 7 (attempts 1 .. n) were served
\* one after the other from an empty database, one being the database after
\* the first.  All stored vectors are equal, so a fitted clusterer has four
\* equal centroids and predicts 0: every stored result is the one of
\* cluster 0.
StoreAfter(one, n) ==
    [ vectors |-> [i \in 1..n |-> [one.vectors[1] EXCEPT !.attempt_id = i]],
      results |-> [i \in 1..n |-> [one.results[1] EXCEPT !.attempt_id = i]] ]

\* rows of another writer: user 99, with the given features_json
ForeignUser == 99

ForeignRow(kind) ==
    [ user_id |-> ForeignUser, attempt_id |-> 0,
      features_json |-> [kind |-> kind, items |-> <<>>],
      score |-> 0, total |-> 0, logic |-> 0, programming |-> 0,
      networking |-> 0, design |-> 0 ]

\* st with n foreign rows added, of the three kinds in turn
WithForeignRows(st, n) ==
    [st EXCEPT !.vectors = @ \o
        [i \in 1..n |-> ForeignRow(IF i % 3 = 0 THEN "list"
                                   ELSE IF i % 3 = 1 THEN "object" ELSE "garbage")]]

\* The situations at the start, [store, catalogue, first]: the database,
\* what the course service holds and the student of the first request (the
\* two students take turns).  Databases: empty; after 8 requests; after 7
\* requests with 4 rows that do not parse; after 12 requests with so many
\* rows that do not parse that only 9, or just 10, vectors are among the
\* newest 500 once a request has saved its own.
SituationsFrom(one, none, some) ==
    { [store |-> StoreAfter(one, 0), catalogue |-> none, first |-> 7],
      [store |-> StoreAfter(one, 0), catalogue |-> some, first |-> 8],
      [store |-> StoreAfter(one, 8), catalogue |-> some, first |-> 7],
      [store |-> WithForeignRows(StoreAfter(one, 7), 4), catalogue |-> none, first |-> 8],
      [store |-> WithForeignRows(StoreAfter(one, 12), RecentLimit - 9),
       catalogue |-> none, first |-> 7],
      [store |-> WithForeignRows(StoreAfter(one, 12), RecentLimit - 10),
       catalogue |-> some, first |-> 8] }

InitialSituations ==
    SituationsFrom(FirstServed, <<>>, CHOOSE c \in Catalogues : c # <<>>)

InitRecommend ==
    /\ \E sit \in InitialSituations :
         /\ store = sit.store
         /\ handler = [ reqs |-> [w \in Workers |-> <<>>], started |-> 0,
                        served |-> 0, catalogue |-> sit.catalogue,
                        first |-> sit.first, last |-> <<>> ]
    /\ rng = 0
    /\ clusterer = <<>>
    /\ orchIn = <<>>
    /\ orchOut = <<>>
    /\ ClsIdle
    /\ CbfIdle
    /\ KmIdle
    /\ GlueIdle
    /\ CosIdle
    /\ GwIdle

RecommendUnchanged ==
    UNCHANGED <<clusterer, orchIn, orchOut, clsVars, cbfVars, kmVars, glueVars, cosVars, gwVars>>

\* a request arrives and awaits the profile service
RecommendArrive(w) ==
    /\ handler.reqs[w] = <<>>
    /\ handler.started < MaxRequests
    /\ LET user_id == IF handler.started % 2 = 0 THEN handler.first
                      ELSE 15 - handler.first
       IN  handler' = [handler EXCEPT
             !.started = @ + 1,
             !.reqs[w] = << [ pc |-> "profile",
                              payload |-> Payload(user_id, 1000 + handler.started),
                              interests |-> <<>>, career_goals |-> <<>>,
                              year_level |-> <<>>, courses |-> <<>> ] >>]
    /\ UNCHANGED <<store, rng>>
    /\ RecommendUnchanged

\* step 1 after its await: the profile's texts if the status is 200, skills
\* joined to the interests; then the request awaits the course service
RecommendProfile(w) ==
    /\ handler.reqs[w] # <<>>
    /\ handler.reqs[w][1].pc = "profile"
    /\ LET prof == ProfileAnswer(handler.reqs[w][1].payload.user_id)
       IN  handler' = [handler EXCEPT !.reqs[w] =
             << [ @[1] EXCEPT
                    !.pc = "courses",
                    !.interests = IF prof.ok THEN prof.interests \o prof.skills ELSE <<>>,
                    !.career_goals = IF prof.ok THEN prof.career_goals ELSE <<>>,
                    !.year_level = IF prof.ok THEN prof.year_level ELSE <<>> ] >>]
    /\ UNCHANGED <<store, rng>>
    /\ RecommendUnchanged

\* step 2 after its await: the courses of the catalogue (none if the
\* service has none or the fetch failed)
RecommendCourses(w) ==
    /\ handler.reqs[w] # <<>>
    /\ handler.reqs[w][1].pc = "courses"
    /\ LET courses == handler.catalogue
       IN  handler' = [handler EXCEPT !.reqs[w] =
             << [ @[1] EXCEPT !.pc = "ready", !.courses = courses ] >>]
    /\ UNCHANGED <<store, rng>>
    /\ RecommendUnchanged

\* the request of worker w returns, r being what steps 3 to 6 made
RecommendReturn(w, req, r) ==
    /\ store' = r.store
    /\ rng' = r.rng
    /\ handler' = [handler EXCEPT
           !.reqs[w] = <<>>,
           !.served = @ + 1,
           !.last = << [ payload |-> req.payload,
                         feature_vec |-> r.feature_vec,
                         vectors_before |-> Len(store.vectors),
                         results_before |-> Len(store.results),
                         newest |-> r.newest,
                         passed |-> r.passed,
                         result |-> r.result ] >>]

\* steps 3 to 6 and the return statement
RecommendRespond(w) ==
    /\ handler.reqs[w] # <<>>
    /\ handler.reqs[w][1].pc = "ready"
    /\ RecommendReturn(w, handler.reqs[w][1],
                       RecommendFromVector(store, rng, handler.reqs[w][1]))
    /\ RecommendUnchanged

NextRecommend ==
    \E w \in Workers :
        \/ RecommendArrive(w)
        \/ RecommendProfile(w)
        \/ RecommendCourses(w)
        \/ RecommendRespond(w)

SpecRecommend == InitRecommend /\ [][NextRecommend]_vars


\* a request was answered; LastServed is what it did
Responded == handler.last # <<>>

LastServed == handler.last[1]

\* the positions of the at most 500 newest rows of the table
RecentPositions ==
    (Max(0, Len(store.vectors) - RecentLimit) + 1) .. Len(store.vectors)

\* the rows among them that hold a vector
ValidRecent == { i \in RecentPositions : ParsesToVector(store.vectors[i]) }

\* the vector of the row at position i, as a StudentVector
StoredVector(i) ==
    [ user_id |-> store.vectors[i].user_id,
      features |-> store.vectors[i].features_json.items ]

\* the population handed over is the valid rows among the newest 500, newest
\* first
PassedIsValidRecent ==
    /\ Len(LastServed.passed) = Cardinality(ValidRecent)
    /\ \A j \in 1..Len(LastServed.passed) :
         \E i \in ValidRecent :
            /\ LastServed.passed[j] = StoredVector(i)
            /\ Cardinality({ h \in ValidRecent : h > i }) = j - 1

\* C23: the handler hands a historical population to the core only when at
\* least 10 of the at most 500 newest rows hold a valid vector, and then it
\* is those vectors; with fewer than 10 it hands over none and the
\* response's cluster_id is 0.
C23_PopulationOnlyFromTenValid ==
    Responded =>
        /\ LastServed.passed # <<>> =>
              Cardinality(ValidRecent) >= MinPopulation /\ PassedIsValidRecent
        /\ Cardinality(ValidRecent) < MinPopulation =>
              /\ LastServed.passed = <<>>
              /\ ~LastServed.result.raised
              /\ LastServed.result.cluster_id = 0

\* exactly 10 valid vectors among more loaded rows: the population is passed
C23_Witness ==
    /\ Responded
    /\ Len(LastServed.passed) = MinPopulation
    /\ Len(store.vectors) > MinPopulation
    /\ Len(store.vectors) <= RecentLimit

\* the row the last answered request wrote
OwnRow == FeatureRow(LastServed.payload, json_dumps(LastServed.feature_vec))

\* every row of the table was written by the handler
OnlyHandlerRows ==
    \A i \in 1..Len(store.vectors) : store.vectors[i].user_id # ForeignUser

\* what an answered request found and left
OwnVectorIsNewest ==
    Responded =>
        /\ LastServed.newest = <<OwnRow>>
        /\ Len(store.vectors) = LastServed.vectors_before + 1
        /\ store.vectors[Len(store.vectors)] = OwnRow
        /\ Len(store.results) = LastServed.results_before + 1
        /\ store.results[Len(store.results)].attempt_id = LastServed.payload.attempt_id
        /\ LastServed.passed # <<>> =>
              LastServed.passed[1] = [ user_id |-> LastServed.payload.user_id,
                                       features |-> LastServed.feature_vec ]

\* in a table that only the handler wrote, the request that wrote row n is
\* clustered exactly if n >= 10
TenthIsFirstClustered ==
    (Responded /\ OnlyHandlerRows) =>
        /\ LastServed.passed # <<>> <=> Len(store.vectors) >= MinPopulation
        /\ Len(store.vectors) < MinPopulation => LastServed.result.cluster_id = 0

\* every step adds as many rows to each table as requests were answered by it
GrowsByOnePerRequest ==
    /\ Len(store'.vectors) - Len(store.vectors) = handler'.served - handler.served
    /\ Len(store'.results) - Len(store.results) = handler'.served - handler.served
    /\ SubSeq(store'.vectors, 1, Len(store.vectors)) = store.vectors
    /\ SubSeq(store'.results, 1, Len(store.results)) = store.results

\* C30: each request commits its own vector before the population is loaded
\* and then stores one result: its vector is the newest loaded entry, each
\* table grows by one row per answered request, and from an empty table the
\* first request that is clustered is the 10th.
C30_SaveBeforeLoadOnePerRequest ==
    /\ [](OwnVectorIsNewest /\ TenthIsFirstClustered)
    /\ [][GrowsByOnePerRequest]_vars

\* the 10th request since the empty table, of the other student
C30_Witness ==
    /\ Responded
    /\ OnlyHandlerRows
    /\ Len(store.vectors) = MinPopulation
    /\ LastServed.payload.user_id = 8
    /\ LastServed.passed # <<>>
    /\ LastServed.passed[1].user_id = 8


(***************************************************************************)
(* Specification SpecGateway: one request through the API gateway (main.py)*)
(* from auth_middleware to the answer of the downstream service.  A        *)
(* request shares nothing with other requests (request.state belongs to    *)
(* it), so requests are served one after the other.  A text is a sequence  *)
(* of pieces whose concatenation it is: "/health" followed by "z" is the   *)
(* path /healthz, "Bearer", " ", "t1" is the header value "Bearer t1".     *)
(***************************************************************************)
\* str.lower() of a header name or of a piece of a header value
HeaderLower(w) ==
    CASE w = "X-User-ID" -> "x-user-id"
      [] w = "X-USER-ID" -> "x-user-id"
      [] w = "X-User-Email" -> "x-user-email"
      [] w = "Authorization" -> "authorization"
      [] w = "Connection" -> "connection"
      [] w = "Accept" -> "accept"
      [] w = "X-Program" -> "x-program"
      [] w = "Bearer" -> "bearer"
      [] w = "BEARER" -> "bearer"
      [] w = "Basic" -> "basic"
      [] OTHER -> w

\* str.strip() of a piece
Strip(w) ==
    CASE w = " " -> ""
      [] w = " t1" -> "t1"
      [] w = " u1 " -> "u1"
      [] OTHER -> w

\* text.startswith(prefix)
StartsWith(text, prefix) ==
    Len(text) >= Len(prefix) /\ SubSeq(text, 1, Len(prefix)) = prefix

PUBLIC_PREFIXES ==
    { <<"/auth/", "register">>, <<"/auth/", "login">>, <<"/auth/", "verify">>,
      <<"/auth/", "forgot-password">>, <<"/auth/", "reset-password">>,
      <<"/auth/", "google/", "login">>, <<"/auth/", "google/", "callback">>,
      <<"/health">> }

PUBLIC_EXACT == { <<"/">> }

\* _is_public
is_public(path) ==
    IF path \in PUBLIC_EXACT THEN TRUE
    ELSE \E prefix \in PUBLIC_PREFIXES : StartsWith(path, prefix)

HOP_BY_HOP_HEADERS ==
    { "host", "content-length", "transfer-encoding", "connection", "keep-alive",
      "proxy-authenticate", "proxy-authorization", "te", "trailers", "upgrade" }

\* headers[k] = v on a dict kept as the sequence of its items
HeaderSet(headers, k, v) ==
    IF \E i \in 1..Len(headers) : headers[i][1] = k
    THEN [i \in 1..Len(headers) |->
             IF headers[i][1] = k THEN <<k, v>> ELSE headers[i]]
    ELSE Append(headers, <<k, v>>)

\* request.headers.get(name, ""): the names of request.headers are lower
\* case and the lookup ignores the case of name
HeaderGet(headers, name) ==
    IF \E i \in 1..Len(headers) : headers[i][1] = HeaderLower(name)
    THEN headers[CHOOSE i \in 1..Len(headers) : headers[i][1] = HeaderLower(name)][2]
    ELSE <<>>

\* _copy_headers: the loop over request.headers.items() from item i on
RECURSIVE copy_headers(_, _, _)
copy_headers(items, i, out) ==
    IF i > Len(items) THEN out
    ELSE IF HeaderLower(items[i][1]) \in HOP_BY_HOP_HEADERS
    THEN copy_headers(items, i + 1, out)
    ELSE copy_headers(items, i + 1, HeaderSet(out, items[i][1], items[i][2]))

\* _attach_user_headers: user is <<>> (request.state has no user) or <<dict>>
attach_user_headers(headers, user) ==
    IF user = <<>> THEN headers
    ELSE LET uid == Strip(user[1].sub)
             email == Strip(user[1].email)
             withId == IF uid # "" THEN HeaderSet(headers, "X-User-ID", <<uid>>)
                       ELSE headers
         IN  IF email # "" THEN HeaderSet(withId, "X-User-Email", <<email>>)
             ELSE withId

\* (mutant) only an absent field is missing
FieldMissingOnlyAbsent(field) == field = <<>>

\* "if not sub": the field is absent, null or empty
FieldMissing(field) == IF field = <<>> THEN TRUE ELSE field[1] = ""

\* payload = data, or data["user"] if that is a dict: sub and email of a
\* wrapped body are those of the inner dict
UnwrappedPayload(body) == [sub |-> body.sub, email |-> body.email]

\* _verify_token from the answer of the auth service on: [status, user],
\* status 0 meaning that it returned the user
verify_token(ans) ==
    IF ~ans.reach THEN [status |-> 503, user |-> <<>>]
    ELSE IF ans.status # 200 THEN [status |-> 401, user |-> <<>>]
    ELSE IF ans.body.kind # "dict" THEN [status |-> 401, user |-> <<>>]
    ELSE IF FieldMissing(UnwrappedPayload(ans.body).sub)
    THEN [status |-> 401, user |-> <<>>]
    ELSE IF FieldMissing(UnwrappedPayload(ans.body).email)
    THEN [status |-> 401, user |-> <<>>]
    ELSE [status |-> 0,
          user |-> << [sub |-> UnwrappedPayload(ans.body).sub[1],
                       email |-> UnwrappedPayload(ans.body).email[1]] >>]

\* auth_header.lower().startswith("bearer ")
IsBearer(auth_header) ==
    /\ Len(auth_header) >= 2
    /\ HeaderLower(auth_header[1]) = "bearer"
    /\ auth_header[2] = " "

\* auth_header.split(" ", 1)[1].strip()
BearerToken(auth_header) ==
    IF Len(auth_header) >= 3 THEN Strip(auth_header[3]) ELSE ""

\* the routes of the app: [service, path] of the forward call, service
\* "local" for a route that answers itself and "none" where no route matches
GatewayRoute(method, path) ==
    IF method = "GET" /\ path \in {<<"/">>, <<"/health">>}
    THEN [service |-> "local"]
    ELSE IF method = "POST" /\ path = <<"/auth/", "login">>
    THEN [service |-> "auth"]
    ELSE IF method = "GET" /\ path = <<"/profile/", "me">>
    THEN [service |-> "profile"]
    ELSE IF method = "GET" /\ path = <<"/quiz/", "questions">>
    THEN [service |-> "quiz"]
    ELSE [service |-> "none"]

GatewayMethods == {"GET", "POST", "OPTIONS"}

GatewayPaths ==
    { <<"/">>, <<"/health">>, <<"/health", "z">>, <<"/auth/", "login">>,
      <<"/auth/", "me">>, <<"/profile/", "me">>, <<"/quiz/", "questions">> }

\* Authorization values: none, another scheme, no space, no token, a blank
\* token, and tokens behind the scheme in three letter cases
AuthorizationValues ==
    { <<>>, <<"Basic", " ", "t1">>, <<"Bearer">>, <<"Bearer", " ">>,
      <<"Bearer", " ", " ">>, <<"Bearer", " ", "t1">>,
      <<"bearer", " ", "t1">>, <<"BEARER", " ", " t1">> }

\* the identity headers a client may send, under the name it writes
ClientIdentityHeaders ==
    { <<>>,
      << <<"X-User-ID", <<"666">>>> >>,
      << <<"x-user-id", <<"666">>>>, <<"X-User-Email", <<"evil@x">>>> >>,
      << <<"X-USER-ID", <<"666">>>>, <<"Connection", <<"close">>>> >> }

\* the header lines of a request as the server hands them over: names in
\* lower case, in the order sent
ReceivedHeaders(lines) ==
    [i \in 1..Len(lines) |-> <<HeaderLower(lines[i][1]), lines[i][2]>>]

\* the headers of a request: Accept, the identity headers, Authorization
ClientHeaderLines(identity, authorization) ==
    << <<"Accept", <<"*/*">>>> >> \o identity
    \o (IF authorization = <<>> THEN <<>>
        ELSE << <<"Authorization", authorization>> >>)

\* the bodies of the auth service: no JSON object; or an object with sub and
\* email (absent or null: <<>>), as it is or under the key "user"
AuthBodies ==
    { [kind |-> "text", sub |-> <<>>, email |-> <<>>, wrapped |-> FALSE] }
    \cup [ kind : {"dict"}, sub : {<<>>, <<"">>, <<"u1">>, <<" u1 ">>, <<" ">>},
           email : {<<>>, <<"">>, <<"e1">>}, wrapped : BOOLEAN ]

\* the answers of the auth service: none (httpx.RequestError), a status
\* other than 200, or 200
AuthAnswers ==
    { [reach |-> FALSE, status |-> 0,
       body |-> [kind |-> "text", sub |-> <<>>, email |-> <<>>, wrapped |-> FALSE]],
      [reach |-> TRUE, status |-> 401,
       body |-> [kind |-> "dict", sub |-> <<"u1">>, email |-> <<"e1">>, wrapped |-> FALSE]] }
    \cup [ reach : {TRUE}, status : {200}, body : AuthBodies ]

\* a request in the gateway
NewGatewayRequest(method, path, headers) ==
    [ pc |-> "middleware", method |-> method, path |-> path,
      headers |-> headers, user |-> <<>>, verified |-> <<>>,
      called_next |-> FALSE, service |-> "none", sent |-> <<>>,
      reached |-> FALSE, response |-> 0 ]

InitGateway ==
    /\ gw = <<>>
    /\ ClsIdle
    /\ CbfIdle
    /\ OrchIdle
    /\ KmIdle
    /\ GlueIdle
    /\ CosIdle
    /\ RecIdle

GatewayUnchanged ==
    UNCHANGED <<clsVars, cbfVars, orchVars, kmVars, glueVars, cosVars, recVars>>

\* auth_middleware up to its first await or its return
MiddlewareStep(r) ==
    IF r.method = "OPTIONS" THEN [r EXCEPT !.pc = "route", !.called_next = TRUE]
    ELSE IF is_public(r.path) THEN [r EXCEPT !.pc = "route", !.called_next = TRUE]
    ELSE IF ~IsBearer(HeaderGet(r.headers, "Authorization"))
    THEN [r EXCEPT !.pc = "done", !.response = 401]
    ELSE IF BearerToken(HeaderGet(r.headers, "Authorization")) = ""
    THEN [r EXCEPT !.pc = "done", !.response = 401]
    ELSE [r EXCEPT !.pc = "verify"]

\* a request arrives at auth_middleware
GatewayReceive ==
    /\ IF gw = <<>> THEN TRUE ELSE gw[1].pc = "done"
    /\ \E method \in GatewayMethods, path \in GatewayPaths,
          identity \in ClientIdentityHeaders, authorization \in AuthorizationValues :
         gw' = << MiddlewareStep(NewGatewayRequest(method, path,
                      ReceivedHeaders(ClientHeaderLines(identity, authorization)))) >>
    /\ GatewayUnchanged

\* what the middleware does with the outcome of _verify_token
AfterVerify(r, ans, v) ==
    IF v.status # 0
    THEN [r EXCEPT !.pc = "done", !.verified = <<ans>>, !.response = v.status]
    ELSE [r EXCEPT !.pc = "route", !.verified = <<ans>>, !.user = v.user,
                   !.called_next = TRUE]

\* user = await _verify_token(token); request.state.user = user
GatewayVerify ==
    /\ gw # <<>>
    /\ gw[1].pc = "verify"
    /\ \E ans \in AuthAnswers : gw' = << AfterVerify(gw[1], ans, verify_token(ans)) >>
    /\ GatewayUnchanged

\* forward up to its first await: the headers of the downstream request
ForwardHeaders(r) ==
    attach_user_headers(copy_headers(r.headers, 1, <<>>), r.user)

\* call_next(request): the route handler; no route is a 404 (405 for a
\* method the path does not take), the two local routes answer themselves
RouteStep(r, route) ==
    IF route.service = "none" THEN [r EXCEPT !.pc = "done", !.response = 404]
    ELSE IF route.service = "local" THEN [r EXCEPT !.pc = "done", !.response = 200]
    ELSE [r EXCEPT !.pc = IF route.service = "quiz" THEN "program" ELSE "send",
                   !.service = route.service, !.sent = ForwardHeaders(r)]

GatewayRouteRequest ==
    /\ gw # <<>>
    /\ gw[1].pc = "route"
    /\ gw' = << RouteStep(gw[1], GatewayRoute(gw[1].method, gw[1].path)) >>
    /\ GatewayUnchanged

\* prog = await _fetch_program_from_profile(request); headers["X-Program"]
GatewayProgram ==
    /\ gw # <<>>
    /\ gw[1].pc = "program"
    /\ \E prog \in {"", "it"} :
         gw' = << [gw[1] EXCEPT
                     !.pc = "send",
                     !.sent = IF prog # "" /\ HeaderGet(gw[1].headers, "authorization") # <<>>
                              THEN HeaderSet(@, "X-Program", <<prog>>) ELSE @] >>
    /\ GatewayUnchanged

\* resp = await client.request(**kwargs): the downstream service answers
\* with a status, or does not (timeout 504, other request error 503)
GatewaySend ==
    /\ gw # <<>>
    /\ gw[1].pc = "send"
    /\ \E outcome \in {200, 404, 503, 504} :
         gw' = << [gw[1] EXCEPT !.pc = "done", !.response = outcome,
                                !.reached = outcome \in {200, 404}] >>
    /\ GatewayUnchanged

NextGateway ==
    \/ GatewayReceive
    \/ GatewayVerify
    \/ GatewayRouteRequest
    \/ GatewayProgram
    \/ GatewaySend

SpecGateway == InitGateway /\ [][NextGateway]_vars


\* the request in the gateway
Req == gw[1]

\* the values that reach the downstream service under a header name, in
\* whatever letter case the name is written
ForwardedValues(name) ==
    { Req.sent[i][2] : i \in { j \in 1..Len(Req.sent) : HeaderLower(Req.sent[j][1]) = name } }

\* the values the client sent under a header name
ClientValues(name) ==
    { Req.headers[i][2] : i \in { j \in 1..Len(Req.headers) : Req.headers[j][1] = name } }

\* sub and email of the token the auth service verified for the request, as
\* given and without surrounding blanks
VerifiedIdentity(field) ==
    IF Req.user = <<>> THEN {}
    ELSE LET given == IF field = "sub" THEN Req.verified[1].body.sub[1]
                      ELSE Req.verified[1].body.email[1]
         IN  { <<given>>, <<Strip(given)>> }

\* C28: of a request that reached a downstream service, the only X-User-ID
\* and X-User-Email values that reached it are sub and email of the token
\* verified for the request; a value the client supplied is never forwarded.
C28_OnlyVerifiedIdentityForwarded ==
    (gw # <<>> /\ Req.reached) =>
        /\ ForwardedValues("x-user-id") \subseteq VerifiedIdentity("sub")
        /\ ForwardedValues("x-user-email") \subseteq VerifiedIdentity("email")
        /\ ForwardedValues("x-user-id") \cap ClientValues("x-user-id") = {}
        /\ ForwardedValues("x-user-email") \cap ClientValues("x-user-email") = {}

\* the request needs a verified token
Protected == Req.method # "OPTIONS" /\ ~is_public(Req.path)

\* the Authorization header as the client sent it
ClientAuthorization ==
    IF \E i \in 1..Len(Req.headers) : Req.headers[i][1] = "authorization"
    THEN Req.headers[CHOOSE i \in 1..Len(Req.headers) : Req.headers[i][1] = "authorization"][2]
    ELSE <<>>

\* the header is "bearer" in some letter case, a space, and a token that is
\* not blank
CarriesBearerToken ==
    /\ Len(ClientAuthorization) = 3
    /\ ClientAuthorization[1] \in {"Bearer", "bearer", "BEARER"}
    /\ ClientAuthorization[2] = " "
    /\ ClientAuthorization[3] \in {"t1", " t1"}

\* the auth service answered 200 with a payload carrying a non-empty sub and
\* a non-empty email
Accepted(ans) ==
    /\ ans.reach
    /\ ans.status = 200
    /\ ans.body.kind = "dict"
    /\ ans.body.sub \notin {<<>>, <<"">>}
    /\ ans.body.email \notin {<<>>, <<"">>}

\* the request was not handed on and nothing was sent downstream
NotForwarded == ~Req.called_next /\ Req.sent = <<>> /\ ~Req.reached

\* C29: a request that is not OPTIONS and whose path is not public reaches
\* the downstream handler only after the auth service answered 200 with a
\* non-empty sub and email, which are then its user; without a Bearer token
\* it gets 401, with a rejected token 401, with the auth service
\* unreachable 503, and in these cases it is not forwarded.
C29_ProtectedNeedsVerifiedToken ==
    (gw # <<>> /\ Protected) =>
        /\ Req.called_next =>
              /\ CarriesBearerToken
              /\ Req.verified # <<>>
              /\ Accepted(Req.verified[1])
              /\ Req.user = << [sub |-> Req.verified[1].body.sub[1],
                                email |-> Req.verified[1].body.email[1]] >>
        /\ ~CarriesBearerToken =>
              Req.pc = "done" /\ Req.response = 401 /\ Req.verified = <<>> /\ NotForwarded
        /\ (Req.verified # <<>> /\ ~Req.verified[1].reach) =>
              Req.pc = "done" /\ Req.response = 503 /\ NotForwarded
        /\ (Req.verified # <<>> /\ Req.verified[1].reach /\ ~Accepted(Req.verified[1])) =>
              Req.pc = "done" /\ Req.response = 401 /\ NotForwarded

\* a protected request with a verified token reached its downstream service
C29_Witness ==
    /\ gw # <<>>
    /\ Protected
    /\ Req.called_next
    /\ Req.reached
    /\ Req.user # <<>>
    /\ Req.verified[1].body.wrapped

=============================================================================
